---- MODULE Spec2Model ----
(***************************************************************************)
(* SF Wormhole Deploy: the dependency-resolution orchestration engine.     *)
(*                                                                         *)
(* The model follows DeploymentOrchestrator.deployComponents and its       *)
(* collaborators (ErrorParser, ComponentLocator, StateManager) as a state  *)
(* machine.  One action stands for the synchronous code between two        *)
(* suspension points (awaits) of the async handler.                        *)
(*                                                                         *)
(* Strings are modelled as sequences of tokens (Str), so that the string   *)
(* operations of the source (concatenation, endsWith, split(".").pop(),    *)
(* replace) are computed and not assumed.                                  *)
(***************************************************************************)
EXTENDS Integers, Sequences, FiniteSets, TLC

(***************************************************************************)
(* Bounds of the model.                                                    *)
(***************************************************************************)
\* number of top-level wormhole.deployComponent commands issued
MaxRequests == 2
\* number of lines of one command output
MaxLines == 1
\* a further top-level command is issued only while the attempt counter is
\* at most this (the counter itself is unbounded in the source)
MaxCounterAtStart == 1
\* number of files the user selects in the open dialog
MaxSelect == 1
\* ExecuteSpec: number of phrases in stdout, and in stderr
MaxMarkers == 2
\* SignatureSpec: number of components of a list passed to deployComponents
MaxListLen == 2
\* ConcurrentSpec: steps are taken while the attempt counter is at most this
MaxConcurrentAttempts == 2
\* the Command Runner's output is drawn from all of Lines up to this recursion
\* depth and from DeepLines below it
MaxVariedDepth == 0
\* the lines of an output given to the ErrorParser on its own
MaxParseLines == 3
\* the phrases of one line of such an output
MaxPhrases == 2
\* the calls of the ErrorParser on one output
MaxParseCalls == 2
\* DirectSpec: number of descriptors of the list passed to deployComponents
MaxDirectLen == 2
\* calls of CLIExecutor.deployComponents that can overlap
MaxOverlap == 2
\* RetrySpec: no step is taken once the attempt counter has reached this
\* number
MaxRetryAttempts == 5

(***************************************************************************)
(* Strings.                                                                *)
(***************************************************************************)
\* the tokens strings are made of, in collation order
Alphabet == <<"__c", ".", "5", "Account", "Bar", "Foo", "Inv", "Nope", "X">>

TokenRank(t) == CHOOSE i \in 1..Len(Alphabet) : Alphabet[i] = t

\* number of characters of a token
TokenLen(t) ==
  CASE t \in {".", "5", "X"} -> 1
    [] t \in {"__c", "Bar", "Foo", "Inv"} -> 3
    [] t = "Nope" -> 4
    [] t = "Account" -> 7

RECURSIVE StrLength(_)
StrLength(s) == IF s = <<>> THEN 0 ELSE TokenLen(Head(s)) + StrLength(Tail(s))

\* /^\d+$/.test(s)
IsDigits(s) == s # <<>> /\ \A i \in 1..Len(s) : s[i] = "5"

\* s.endsWith(suffix)
EndsWith(s, suffix) ==
  /\ Len(suffix) <= Len(s)
  /\ SubSeq(s, Len(s) - Len(suffix) + 1, Len(s)) = suffix

\* s.startsWith(prefix)
StartsWith(s, prefix) ==
  /\ Len(prefix) <= Len(s)
  /\ SubSeq(s, 1, Len(prefix)) = prefix

\* s.split(".").pop()
LastSegment(s) ==
  IF \E i \in 1..Len(s) : s[i] = "."
  THEN LET i == CHOOSE k \in 1..Len(s) : s[k] = "." /\ \A j \in (k+1)..Len(s) : s[j] # "."
       IN SubSeq(s, i + 1, Len(s))
  ELSE s

\* s.replace("__c", ""): the first occurrence only
ReplaceFirstC(s) ==
  IF \E i \in 1..Len(s) : s[i] = "__c"
  THEN LET i == CHOOSE k \in 1..Len(s) : s[k] = "__c" /\ \A j \in 1..(k-1) : s[j] # "__c"
       IN SubSeq(s, 1, i - 1) \o SubSeq(s, i + 1, Len(s))
  ELSE s

\* a.localeCompare(b) < 0
RECURSIVE StrLess(_, _)
StrLess(a, b) ==
  IF a = <<>> THEN b # <<>>
  ELSE IF b = <<>> THEN FALSE
  ELSE IF Head(a) # Head(b) THEN TokenRank(Head(a)) < TokenRank(Head(b))
  ELSE StrLess(Tail(a), Tail(b))

(***************************************************************************)
(* types.ts: ComponentInfo.                                                *)
(***************************************************************************)
NoPath == [folder |-> "none"]

ComponentInfo(t, n, p) == [type |-> t, name |-> n, filePath |-> p]

\* `${component.type}:${component.name}`
ComponentKey(c) == <<c.type, c.name>>

\* the metadata types, in collation order (a.type.localeCompare(b.type))
TypeOrder ==
  <<"ApexClass", "ApexTrigger", "AuraDefinitionBundle", "CustomField",
    "CustomObject", "LightningComponentBundle">>

TypeRank(t) == CHOOSE i \in 1..Len(TypeOrder) : TypeOrder[i] = t

(***************************************************************************)
(* The workspace: the files vscode.workspace.findFiles searches.  A path   *)
(* is a record: root is where the file lives ("default" is                 *)
(* force-app/main/default, "forceapp" another directory below force-app,   *)
(* "elsewhere" outside force-app), folder the metadata folder, dir the     *)
(* directory right below the folder (bundles and objects), sub a further   *)
(* directory ("fields"), base the file name up to its first dot, ext the   *)
(* rest of the file name.                                                  *)
(***************************************************************************)
File(root, folder, dir, sub, base, ext) ==
  [root |-> root, folder |-> folder, dir |-> dir, sub |-> sub, base |-> base, ext |-> ext]

\* force-app/main/default/classes/Foo.cls
ClassFoo == File("default", "classes", <<>>, "", <<"Foo">>, "cls")
\* force-app/main/default/objects/Inv__c/Inv__c.object-meta.xml
ObjectInv == File("default", "objects", <<"Inv", "__c">>, "", <<"Inv", "__c">>, "object-meta.xml")
\* force-app/main/default/objects/Account/fields/Bar__c.field-meta.xml
FieldBar == File("default", "objects", <<"Account">>, "fields", <<"Bar", "__c">>, "field-meta.xml")
\* docs/X.md
ReadmeFile == File("elsewhere", "docs", <<>>, "", <<"X">>, "md")

Workspace == {ClassFoo, ObjectInv, FieldBar, ReadmeFile}

(***************************************************************************)
(* ComponentLocator.                                                       *)
(***************************************************************************)
UnderForceApp(f) == f.root \in {"default", "forceapp"}

\* the glob patterns of findComponentFile, in order: the files each matches
SearchPatterns(name) ==
  << {f \in Workspace : f.root = "default" /\ f.folder = "classes" /\ f.base = name /\ f.ext = "cls"},
     {f \in Workspace : f.root = "default" /\ f.folder = "triggers" /\ f.base = name /\ f.ext = "trigger"},
     {f \in Workspace : f.root = "default" /\ f.folder = "objects" /\ f.dir = name \o <<"__c">>},
     {f \in Workspace : f.root = "default" /\ f.folder = "lwc" /\ f.dir = name},
     {f \in Workspace : f.root = "default" /\ f.folder = "aura" /\ f.dir = name},
     {f \in Workspace : UnderForceApp(f) /\ f.folder = "classes" /\ f.base = name /\ f.ext = "cls"},
     {f \in Workspace : UnderForceApp(f) /\ f.folder = "triggers" /\ f.base = name /\ f.ext = "trigger"},
     {f \in Workspace : UnderForceApp(f) /\ f.folder = "objects" /\ f.dir = name \o <<"__c">>},
     {f \in Workspace : UnderForceApp(f) /\ f.folder = "lwc" /\ f.dir = name},
     {f \in Workspace : UnderForceApp(f) /\ f.folder = "aura" /\ f.dir = name},
     {f \in Workspace : f.folder = "classes" /\ f.base = name /\ f.ext = "cls"},
     {f \in Workspace : f.folder = "triggers" /\ f.base = name /\ f.ext = "trigger"},
     {f \in Workspace : f.base = name /\ f.ext = "cls"},
     {f \in Workspace : f.base = name /\ f.ext = "trigger"} >>

\* the patterns of findByType for a component type
TypePatterns(type, name) ==
  CASE type = "ApexClass" ->
         << {f \in Workspace : f.root = "default" /\ f.folder = "classes" /\ f.base = name /\ f.ext = "cls"},
            {f \in Workspace : UnderForceApp(f) /\ f.folder = "classes" /\ f.base = name /\ f.ext = "cls"},
            {f \in Workspace : f.base = name /\ f.ext = "cls"} >>
    [] type = "ApexTrigger" ->
         << {f \in Workspace : f.root = "default" /\ f.folder = "triggers" /\ f.base = name /\ f.ext = "trigger"},
            {f \in Workspace : UnderForceApp(f) /\ f.folder = "triggers" /\ f.base = name /\ f.ext = "trigger"},
            {f \in Workspace : f.base = name /\ f.ext = "trigger"} >>
    [] type = "CustomObject" ->
         << {f \in Workspace : f.root = "default" /\ f.folder = "objects" /\ f.dir = ReplaceFirstC(name) \o <<"__c">>},
            {f \in Workspace : UnderForceApp(f) /\ f.folder = "objects" /\ f.dir = ReplaceFirstC(name) \o <<"__c">>},
            {f \in Workspace : f.folder = "objects" /\ f.dir = ReplaceFirstC(name) \o <<"__c">>} >>
    [] type = "LightningComponentBundle" ->
         << {f \in Workspace : f.root = "default" /\ f.folder = "lwc" /\ f.dir = name},
            {f \in Workspace : UnderForceApp(f) /\ f.folder = "lwc" /\ f.dir = name},
            {f \in Workspace : f.folder = "lwc" /\ f.dir = name} >>
    [] type = "AuraDefinitionBundle" ->
         << {f \in Workspace : f.root = "default" /\ f.folder = "aura" /\ f.dir = name},
            {f \in Workspace : UnderForceApp(f) /\ f.folder = "aura" /\ f.dir = name},
            {f \in Workspace : f.folder = "aura" /\ f.dir = name} >>
    [] OTHER ->
         << {f \in Workspace : f.root = "default" /\ StartsWith(f.base, name)},
            {f \in Workspace : UnderForceApp(f) /\ StartsWith(f.base, name)},
            {f \in Workspace : StartsWith(f.base, name)} >>

\* for (const pattern of patterns) { files = findFiles(pattern, .., 1); if
\* (files.length > 0) return files[0] }: the files the first pattern that
\* matches anything can return; {} stands for null
RECURSIVE FirstMatch(_)
FirstMatch(patterns) ==
  IF patterns = <<>> THEN {}
  ELSE IF Head(patterns) # {} THEN Head(patterns)
  ELSE FirstMatch(Tail(patterns))

findByType(component) == FirstMatch(TypePatterns(component.type, component.name))

findComponentFile(component) ==
  LET found == FirstMatch(SearchPatterns(component.name))
  IN IF found # {} THEN found ELSE findByType(component)

\* pathToComponent(filePath); <<>> stands for null, <<c>> for the component
pathToComponent(filePath) ==
  CASE filePath.folder = "classes" -> <<ComponentInfo("ApexClass", filePath.base, filePath)>>
    [] filePath.folder = "triggers" -> <<ComponentInfo("ApexTrigger", filePath.base, filePath)>>
    [] filePath.folder = "lwc" -> <<ComponentInfo("LightningComponentBundle", filePath.dir, filePath)>>
    [] filePath.folder = "aura" -> <<ComponentInfo("AuraDefinitionBundle", filePath.dir, filePath)>>
    [] filePath.folder = "objects" -> <<ComponentInfo("CustomObject", filePath.dir, filePath)>>
    [] OTHER -> <<>>

\* findObjectForField(fieldName): the object names it can return; {} is null
findObjectForField(fieldName) ==
  LET fieldFiles(S) == {f \in S : /\ f.folder = "objects" /\ f.sub = "fields"
                                   /\ f.base = fieldName /\ f.ext = "field-meta.xml"}
      patterns == << fieldFiles({f \in Workspace : f.root = "default"}),
                     fieldFiles({f \in Workspace : UnderForceApp(f)}),
                     fieldFiles(Workspace) >>
  IN {f.dir : f \in FirstMatch(patterns)}

(***************************************************************************)
(* Command output.  An output is a sequence of lines, a line a sequence of *)
(* phrases; a phrase is the text one regular expression of the parser      *)
(* matches, with the names it captures.                                    *)
(***************************************************************************)
Phrase(pat, arg, arg2) == [pat |-> pat, arg |-> arg, arg2 |-> arg2]

\* "Class 'Foo' does not exist"
ClassFooMissing == <<Phrase("ClassDoesNotExist", <<"Foo">>, <<>>)>>
\* "Class 'Nope' does not exist" (no such file in the workspace)
ClassNopeMissing == <<Phrase("ClassDoesNotExist", <<"Nope">>, <<>>)>>
\* "Invalid type: Inv"
InvalidTypeInv == <<Phrase("InvalidType", <<"Inv">>, <<>>)>>
\* "Variable does not exist: Bar__c (4:13)"
VariableBarMissing == <<Phrase("VariableDoesNotExist", <<"Bar", "__c">>, <<>>)>>
\* "Conflict Foo ApexClass /path"
ConflictFoo == <<Phrase("Conflict", <<"Foo">>, <<"ApexClass">>)>>
\* "Conflict Foo ApexClass /path: Invalid type: Inv"
ConflictAndInvalidType == ConflictFoo \o InvalidTypeInv
\* "4:13"
LineColOnly == <<Phrase("LineCol", <<>>, <<>>)>>
\* "Error: deployment failed"
OtherError == <<Phrase("Other", <<>>, <<>>)>>
\* "Status: Succeeded"
StatusSucceeded == <<Phrase("Succeeded", <<>>, <<>>)>>

\* the lines of the outputs of failed deployments
Lines ==
  {ClassFooMissing, ClassNopeMissing, InvalidTypeInv, VariableBarMissing,
   ConflictFoo, ConflictAndInvalidType, OtherError}

RECURSIVE SeqsUpTo(_, _)
SeqsUpTo(S, n) ==
  IF n = 0 THEN {<<>>}
  ELSE LET shorter == SeqsUpTo(S, n - 1)
       IN shorter \cup {Append(q, e) : q \in {t \in shorter : Len(t) = n - 1}, e \in S}

\* the lines of the outputs of the deeper recursion levels
DeepLines == {InvalidTypeInv, ConflictAndInvalidType, OtherError}

\* an output naming two classes: "Class 'Nope' does not exist" and, on the
\* next line, "Class 'Foo' does not exist"
NopeThenFooMissing == <<ClassNopeMissing, ClassFooMissing>>

Outputs(recursionDepth) ==
  SeqsUpTo(IF recursionDepth <= MaxVariedDepth THEN Lines ELSE DeepLines, MaxLines)
    \cup (IF recursionDepth <= MaxVariedDepth THEN {NopeThenFooMissing} ELSE {})

DeploymentResult(success, output) == [success |-> success, output |-> output]

\* what the Command Runner can return: a success, or a failure with output
DeploymentResults(recursionDepth) ==
  {DeploymentResult(TRUE, <<StatusSucceeded>>)}
    \cup {DeploymentResult(FALSE, output) : output \in Outputs(recursionDepth) \ {<<>>}}

(***************************************************************************)
(* ErrorParser.                                                            *)
(***************************************************************************)
\* line.match(regex): the phrases of the line the regex matches, in order
Matches(line, pat) == SelectSeq(line, LAMBDA ph : ph.pat = pat)

Dependency(type, name) == ComponentInfo(type, name, NoPath)

\* the phrase that comes first in the line decides, whatever its rule
ParseLineByPosition(line) ==
  LET named == SelectSeq(line, LAMBDA ph : ph.pat \notin {"LineCol", "Other", "Conflict"})
      first == named[1]
      nameOk(n) == ~IsDigits(n) /\ StrLength(n) > 1
  IN IF named = <<>> THEN <<>>
     ELSE CASE first.pat = "ClassDoesNotExist" -> <<Dependency("ApexClass", first.arg)>>
            [] first.pat \in {"InvalidType", "DependentClassInvalid"} ->
                 IF nameOk(first.arg) THEN <<Dependency("ApexClass", first.arg)>> ELSE <<>>
            [] first.pat = "SObjectType" -> <<Dependency("CustomObject", first.arg)>>
            [] first.pat = "NoSuchColumn" -> <<Dependency("CustomObject", first.arg2)>>
            [] first.pat = "VariableDoesNotExist" ->
                 IF ~nameOk(first.arg) THEN <<>>
                 ELSE IF EndsWith(first.arg, <<"__c">>)
                      THEN <<Dependency("CustomField", first.arg)>>
                      ELSE <<Dependency("ApexClass", first.arg)>>
            [] OTHER -> <<>>

\* one iteration of the loop over the lines: the dependencies it pushes
ParseLine(line) ==
  LET classMatch == Matches(line, "ClassDoesNotExist")
      invalidTypeMatch == Matches(line, "InvalidType")
      recompileMatch == Matches(line, "DependentClassInvalid")
      objectMatch == Matches(line, "SObjectType")
      fieldMatch == Matches(line, "NoSuchColumn")
      variableMatch == Matches(line, "VariableDoesNotExist")
      nameOk(n) == ~IsDigits(n) /\ StrLength(n) > 1
  IN IF line = LineColOnly THEN <<>>
     ELSE IF classMatch # <<>> THEN <<Dependency("ApexClass", classMatch[1].arg)>>
     ELSE IF invalidTypeMatch # <<>>
       THEN IF nameOk(invalidTypeMatch[1].arg)
            THEN <<Dependency("ApexClass", invalidTypeMatch[1].arg)>> ELSE <<>>
     ELSE IF recompileMatch # <<>>
       THEN IF nameOk(recompileMatch[1].arg)
            THEN <<Dependency("ApexClass", recompileMatch[1].arg)>> ELSE <<>>
     ELSE IF objectMatch # <<>> THEN <<Dependency("CustomObject", objectMatch[1].arg)>>
     ELSE IF fieldMatch # <<>> THEN <<Dependency("CustomObject", fieldMatch[1].arg2)>>
     ELSE IF variableMatch # <<>>
       THEN IF nameOk(variableMatch[1].arg)
            THEN IF EndsWith(variableMatch[1].arg, <<"__c">>)
                 THEN <<Dependency("CustomField", variableMatch[1].arg)>>
                 ELSE <<Dependency("ApexClass", variableMatch[1].arg)>>
            ELSE <<>>
     ELSE <<>>

\* deduplicateComponents: the first component of each key, in order
RECURSIVE deduplicateFrom(_, _)
deduplicateFrom(components, seen) ==
  IF components = <<>> THEN <<>>
  ELSE LET key == ComponentKey(Head(components))
       IN IF key \in seen
          THEN deduplicateFrom(Tail(components), seen)
          ELSE <<Head(components)>> \o deduplicateFrom(Tail(components), seen \cup {key})

\* the components returned as they were pushed
deduplicateNothing(components) == components

deduplicateComponents(components) == deduplicateFrom(components, {})

RECURSIVE ParseLines(_)
ParseLines(lines) ==
  IF lines = <<>> THEN <<>> ELSE ParseLine(Head(lines)) \o ParseLines(Tail(lines))

parseMissingDependencies(output) == deduplicateComponents(ParseLines(output))

\* isConflictError: the lower-cased output includes "conflict"
isConflictError(output) ==
  \E i \in 1..Len(output) : Matches(output[i], "Conflict") # <<>>

\* typeMap[componentType] || componentType
typeMap(componentType) ==
  CASE componentType = "ApexClass" -> "ApexClass"
    [] componentType = "ApexTrigger" -> "ApexTrigger"
    [] componentType = "CustomObject" -> "CustomObject"
    [] OTHER -> componentType

\* one iteration of the loop over the lines: the conflicts it pushes
ConflictOfLine(line) ==
  LET conflictMatch == Matches(line, "Conflict")
  IN IF conflictMatch # <<>>
     THEN <<Dependency(typeMap(conflictMatch[1].arg2[1]), conflictMatch[1].arg)>>
     ELSE <<>>

RECURSIVE ConflictsOfLines(_)
ConflictsOfLines(lines) ==
  IF lines = <<>> THEN <<>>
  ELSE ConflictOfLine(Head(lines)) \o ConflictsOfLines(Tail(lines))

parseConflictComponents(output) == deduplicateComponents(ConflictsOfLines(output))

(***************************************************************************)
(* DeploymentOrchestrator: pure helpers.                                   *)
(***************************************************************************)
MAX_DEPTH == 5

\* the comparator of getComponentSignature's sort
ComponentLess(a, b) ==
  IF a.type # b.type THEN TypeRank(a.type) < TypeRank(b.type)
  ELSE StrLess(a.name, b.name)

\* the signature without the sort: the keys joined in insertion order
getComponentSignatureUnsorted(components) ==
  [i \in 1..Len(components) |-> ComponentKey(components[i])]

\* getComponentSignature: the sorted `type:name` keys joined by "|".  The
\* joined string is kept as the sequence of its keys (names hold neither
\* ":" nor "|", so the join loses nothing).
getComponentSignature(components) ==
  LET sorted == SortSeq(components, ComponentLess)
  IN [i \in 1..Len(sorted) |-> ComponentKey(sorted[i])]

\* the guard off by one: if (recursionDepth >= 5)
DepthLimitReachedEarly(recursionDepth) == recursionDepth >= MAX_DEPTH

\* the guard off by one the other way: if (recursionDepth > 6)
DepthLimitReachedLate(recursionDepth) == recursionDepth > MAX_DEPTH + 1

\* if (recursionDepth > 5)
DepthLimitReached(recursionDepth) == recursionDepth > MAX_DEPTH

\* the loop check without its memory: no list counts as attempted
NeverAttempted(attempted, components) == FALSE

\* this.attemptedDeployments.has(componentSignature)
AlreadyAttempted(attempted, components) ==
  getComponentSignature(components) \in attempted

\* the combined list starts empty: const allComponentsToDeploy = []
InitialDeploymentListEmpty(components) == <<>>

\* const allComponentsToDeploy = [...components]
InitialDeploymentList(components) == components

\* /^\d+$/.test(dep.name) && dep.name.length === 1
IsSingleDigit(dep) == IsDigits(dep.name) /\ StrLength(dep.name) = 1

\* a field is included only under the very name of the dependency
FieldIncludedByName(list, dep) ==
  \E i \in 1..Len(list) : list[i].type = "CustomField" /\ list[i].name = dep.name

\* the CustomField test of the already-included checks
FieldIncluded(list, dep) ==
  \E i \in 1..Len(list) :
    /\ list[i].type = "CustomField"
    /\ \/ list[i].name = dep.name
       \/ EndsWith(list[i].name, <<".">> \o dep.name)
       \/ dep.name = LastSegment(list[i].name)

\* list.some((c) => c.type === dep.type && c.name === dep.name)
ExactIncluded(list, dep) ==
  \E i \in 1..Len(list) : list[i].type = dep.type /\ list[i].name = dep.name

AlreadyIncluded(list, dep) ==
  IF dep.type = "CustomField" THEN FieldIncluded(list, dep) ELSE ExactIncluded(list, dep)

\* missingDependencies.filter(...) after the initial attempt
FilterSingleDigits(deps) == SelectSeq(deps, LAMBDA dep : ~IsSingleDigit(dep))

\* additionalDeps.filter(...) after the combined attempt
FilterNewDeps(additionalDeps, list) ==
  SelectSeq(additionalDeps, LAMBDA dep : ~IsSingleDigit(dep) /\ ~AlreadyIncluded(list, dep))

\* the dependency is pushed as parsed when the Locator finds nothing for it
ResolvedComponentsOrItself(dep) ==
  IF dep.type = "CustomField"
  THEN IF findObjectForField(dep.name) = {} THEN {<<dep>>}
       ELSE {<<ComponentInfo("CustomField", objectName \o <<".">> \o dep.name, NoPath)>> :
               objectName \in findObjectForField(dep.name)}
  ELSE IF findComponentFile(dep) = {} THEN {<<dep>>}
       ELSE {IF pathToComponent(filePath) # <<>>
             THEN pathToComponent(filePath)
             ELSE <<[dep EXCEPT !.filePath = filePath]>> :
               filePath \in findComponentFile(dep)}

\* the field is pushed under the name the parser gave it, without its object
ResolvedComponentsUnqualified(dep) ==
  IF dep.type = "CustomField"
  THEN IF findObjectForField(dep.name) = {} THEN {<<>>} ELSE {<<dep>>}
  ELSE IF findComponentFile(dep) = {} THEN {<<>>}
       ELSE {IF pathToComponent(filePath) # <<>>
             THEN pathToComponent(filePath)
             ELSE <<[dep EXCEPT !.filePath = filePath]>> :
               filePath \in findComponentFile(dep)}

\* what resolving one dependency appends to the list: each element is a
\* possible outcome of the Locator, <<>> when nothing is found
ResolvedComponents(dep) ==
  IF dep.type = "CustomField"
  THEN IF findObjectForField(dep.name) = {} THEN {<<>>}
       ELSE {<<ComponentInfo("CustomField", objectName \o <<".">> \o dep.name, NoPath)>> :
               objectName \in findObjectForField(dep.name)}
  ELSE IF findComponentFile(dep) = {} THEN {<<>>}
       ELSE {IF pathToComponent(filePath) # <<>>
             THEN pathToComponent(filePath)
             ELSE <<[dep EXCEPT !.filePath = filePath]>> :
               filePath \in findComponentFile(dep)}

\* deployComponentList: a component without a file that the Locator cannot
\* find makes it return a failure without calling the Command Runner
NeedsFile(c) == c.type # "CustomField" /\ c.filePath = NoPath

\* the check of the files left out
FileNotFoundNever(components) == FALSE

FileNotFound(components) ==
  \E i \in 1..Len(components) :
    NeedsFile(components[i]) /\ findComponentFile(components[i]) = {}

\* component.filePath = filePath, for the components that had none
WithFilePaths(components) ==
  [i \in 1..Len(components) |->
     IF NeedsFile(components[i]) /\ findComponentFile(components[i]) # {}
     THEN [components[i] EXCEPT !.filePath = CHOOSE f \in findComponentFile(components[i]) : TRUE]
     ELSE components[i]]

\* the output of the failure deployComponentList returns by itself
CouldNotFindFile == <<OtherError>>

(***************************************************************************)
(* CLIExecutor.executeCommand.  A text (stdout, stderr) is the sequence of *)
(* the phrases in it that the executor looks for, lower-cased; "warning"   *)
(* stands for any other text.                                              *)
(***************************************************************************)
Markers ==
  {"status: succeeded", "component failures", "does not exist", "invalid type:",
   "missing message metadata.transfer:finalizing", "could not infer a metadata type",
   "warning"}

Texts == SeqsUpTo(Markers, MaxMarkers)

\* lowerOutput.includes(pattern)
Includes(text, pattern) == \E i \in 1..Len(text) : text[i] = pattern

\* a || b on strings: the empty string is falsy
OrElse(a, b) == IF a # <<>> THEN a ELSE b

\* error.message of a failed exec: "Command failed: sf project deploy start .."
CommandFailedMessage == <<"warning">>

isValidationWarningOnly(stderr) == Includes(stderr, "could not infer a metadata type")

isDeploymentSuccess(output) == Includes(output, "status: succeeded")

isMetadataApiFinalizationError(stderr) ==
  LET hasFinalizationError == Includes(stderr, "missing message metadata.transfer:finalizing")
      hasComponentFailures == Includes(stderr, "component failures")
  IN hasFinalizationError /\ ~hasComponentFailures

hasActualDeploymentErrors(output) ==
  LET hasActualError ==
        \E pattern \in {"component failures", "does not exist", "invalid type:"} :
          Includes(output, pattern)
  IN hasActualError /\ ~isDeploymentSuccess(output)

\* the success test always answers yes
AlwaysSucceeded(output) == TRUE

\* the finalization test of the catch branch left out
CatchIgnoresFinalization(stderr) == FALSE

\* lines 335-336: const deploymentSucceeded = this.isDeploymentSuccess(output)
DeploymentSucceeded(output) == isDeploymentSuccess(output)

\* lines 399-401: isMetadataApiFinalizationError(error.stderr || errorOutput)
CatchFinalizationError(stderr) == isMetadataApiFinalizationError(stderr)

\* executeCommand: failed says whether exec rejected (a non-zero exit code)
executeCommand(stdout, stderr, failed) ==
  IF ~failed
  THEN LET output == stdout \o stderr
           hasErrors ==
             /\ ~DeploymentSucceeded(output)
             /\ ~isMetadataApiFinalizationError(stderr)
             /\ \/ hasActualDeploymentErrors(output)
                \/ (Len(stderr) > 0 /\ ~isValidationWarningOnly(stderr))
       IN DeploymentResult(~hasErrors, output)
  ELSE LET errorOutput == OrElse(stdout, OrElse(stderr, CommandFailedMessage))
       IN IF CatchFinalizationError(OrElse(stderr, errorOutput))
          THEN DeploymentResult(TRUE, errorOutput)
          ELSE DeploymentResult(FALSE, errorOutput)

\* no call of executeCommand yet
NoExecution ==
  [stdout |-> <<>>, stderr |-> <<>>, failed |-> FALSE, result |-> <<>>, again |-> <<>>]

(***************************************************************************)
(* State.                                                                  *)
(***************************************************************************)
VARIABLES
  attemptedDeployments,        \* DeploymentOrchestrator: Set<string>
  attemptedDeploymentDetails,  \* DeploymentOrchestrator: Map<string, ComponentInfo[]>
  deploymentAttemptCounter,    \* DeploymentOrchestrator: number
  deploymentQueue,             \* StateManager: DeploymentQueueItem[]
  deployedComponents,          \* StateManager: Set<string>
  frame,                       \* per command: the activation of deployComponents
  started,                     \* number of commands issued so far
  commandRunnerLog,            \* per command: the calls of cliExecutor.deployComponents
  execution,                   \* CLIExecutor: the last call of executeCommand
  parsed,                      \* ErrorParser: the calls made on one output, in order
  forceIgnore,                 \* the .forceignore file and the ForceIgnoreHandlers
  retry                        \* the activation of retryQueuedDeployments

vars ==
  <<attemptedDeployments, attemptedDeploymentDetails, deploymentAttemptCounter,
    deploymentQueue, deployedComponents, frame, started, commandRunnerLog, execution,
    parsed, forceIgnore, retry>>

Requests == 1..MaxRequests

\* the locals of one activation of deployComponents; pc names the await the
\* activation is suspended at, exit the source line of the return taken;
\* initialResult and combinedResult are <<>> until the attempt has returned
IdleFrame ==
  [pc |-> "idle", recursionDepth |-> 0, components |-> <<>>,
   allComponentsToDeploy |-> <<>>, updatedComponentsToDeploy |-> <<>>,
   dependencies |-> <<>>, next |-> 1, failedDependencies |-> <<>>,
   invoked |-> FALSE, initialResult |-> <<>>, combinedResult |-> <<>>,
   outcome |-> "none", exit |-> 0]

NewFrame(components, recursionDepth) ==
  [IdleFrame EXCEPT !.components = components, !.recursionDepth = recursionDepth]

Return(f, outcome, line) == [f EXCEPT !.pc = "done", !.outcome = outcome, !.exit = line]

\* a ForceIgnoreHandler: its fields, and where the call of
\* CLIExecutor.deployComponents that created it stands
NoHandler == [pc |-> "idle", originalContent |-> <<>>, addedEntries |-> <<>>]

\* the .forceignore file of the workspace is looked at by no call yet: the
\* workspace is the file as the first call finds it, <<>> when there is no
\* file and <<content>> when there is one
NoForceIgnore ==
  [opened |-> FALSE, workspace |-> <<>>, file |-> <<>>,
   handlers |-> [h \in 1..MaxOverlap |-> NoHandler]]

\* retryQueuedDeployments is not running
NoRetry == [pc |-> "idle", queuedItem |-> <<>>, invoked |-> FALSE, deployed |-> <<>>]

Init ==
  /\ attemptedDeployments = {}
  /\ attemptedDeploymentDetails = <<>>
  /\ deploymentAttemptCounter = 0
  /\ deploymentQueue = <<>>
  /\ deployedComponents = {}
  /\ frame = [r \in Requests |-> IdleFrame]
  /\ started = 0
  /\ commandRunnerLog = [r \in Requests |-> <<>>]
  /\ execution = NoExecution
  /\ parsed = <<>>
  /\ forceIgnore = NoForceIgnore
  /\ retry = NoRetry

\* StateManager.isDeployed(component)
isDeployed(deployed, component) == ComponentKey(component) \in deployed

\* the entry is not stored
MapSetNothing(map, key, value) == map

\* Map.set(key, value)
MapSet(map, key, value) ==
  [k \in DOMAIN map \cup {key} |-> IF k = key THEN value ELSE map[k]]

(***************************************************************************)
(* deployComponents, piece by piece.  Each piece below runs from one       *)
(* suspension point to the next and sets frame, attemptedDeployments,      *)
(* attemptedDeploymentDetails, deploymentAttemptCounter, commandRunnerLog. *)
(***************************************************************************)

\* lines 43-98: the depth guard, the loop check, the recording
Enter(r, components, recursionDepth) ==
  IF DepthLimitReached(recursionDepth)
  THEN /\ frame' = [frame EXCEPT ![r] =
                      Return(NewFrame(components, recursionDepth), "DepthExceeded", 52)]
       /\ UNCHANGED <<attemptedDeployments, attemptedDeploymentDetails,
                      deploymentAttemptCounter, commandRunnerLog>>
  ELSE IF AlreadyAttempted(attemptedDeployments, components)
  THEN /\ frame' = [frame EXCEPT ![r] =
                      Return(NewFrame(components, recursionDepth), "Unresolvable", 93)]
       /\ UNCHANGED <<attemptedDeployments, attemptedDeploymentDetails,
                      deploymentAttemptCounter, commandRunnerLog>>
  ELSE /\ attemptedDeployments' =
            attemptedDeployments \cup {getComponentSignature(components)}
       /\ attemptedDeploymentDetails' =
            MapSet(attemptedDeploymentDetails, getComponentSignature(components), components)
       /\ frame' = [frame EXCEPT ![r] =
                      [NewFrame(components, recursionDepth) EXCEPT !.pc = "isAuthenticated"]]
       /\ UNCHANGED <<deploymentAttemptCounter, commandRunnerLog>>

\* the incremented counter is not written back
StartDeploymentLostIncrement(r, f, list, pc) ==
  /\ deploymentAttemptCounter' = deploymentAttemptCounter
  /\ IF FileNotFound(list)
     THEN /\ frame' = [frame EXCEPT ![r] = [f EXCEPT !.pc = pc, !.invoked = FALSE]]
          /\ UNCHANGED commandRunnerLog
     ELSE /\ frame' = [frame EXCEPT ![r] = [f EXCEPT !.pc = pc, !.invoked = TRUE]]
          /\ commandRunnerLog' = [commandRunnerLog EXCEPT ![r] =
               Append(@, [components |-> WithFilePaths(list),
                          attemptNumber |-> deploymentAttemptCounter + 1,
                          recursionDepth |-> f.recursionDepth])]

\* this.deploymentAttemptCounter++ and deployComponentList(list, ..), up to
\* the call of cliExecutor.deployComponents; f is the frame so far
StartDeployment(r, f, list, pc) ==
  /\ deploymentAttemptCounter' = deploymentAttemptCounter + 1
  /\ IF FileNotFound(list)
     THEN /\ frame' = [frame EXCEPT ![r] = [f EXCEPT !.pc = pc, !.invoked = FALSE]]
          /\ UNCHANGED commandRunnerLog
     ELSE /\ frame' = [frame EXCEPT ![r] = [f EXCEPT !.pc = pc, !.invoked = TRUE]]
          /\ commandRunnerLog' = [commandRunnerLog EXCEPT ![r] =
               Append(@, [components |-> WithFilePaths(list),
                          attemptNumber |-> deploymentAttemptCounter + 1,
                          recursionDepth |-> f.recursionDepth])]

\* lines 364-383: record the combined list if new, then deploy it
StartCombined(r, f) ==
  LET list == f.allComponentsToDeploy
      sig == getComponentSignature(list)
  IN /\ IF sig \notin attemptedDeployments
        THEN /\ attemptedDeployments' = attemptedDeployments \cup {sig}
             /\ attemptedDeploymentDetails' = MapSet(attemptedDeploymentDetails, sig, list)
        ELSE UNCHANGED <<attemptedDeployments, attemptedDeploymentDetails>>
     /\ StartDeployment(r, [f EXCEPT !.allComponentsToDeploy = WithFilePaths(list)],
                        list, "combinedDeployment")

\* the index of the first dependency from f.next on that the loop has to
\* search the workspace for (the loop passes the others without an await)
RECURSIVE NextToSearch(_, _, _)
NextToSearch(list, dependencies, n) ==
  IF n > Len(dependencies) THEN n
  ELSE IF AlreadyIncluded(list, dependencies[n]) THEN NextToSearch(list, dependencies, n + 1)
  ELSE n

\* the loop stays on a dependency the Locator did not find, asking again
AfterDependencyUnlessNotFound(next, found) == IF found = <<>> THEN next ELSE next + 1

\* for (const dependency of ...): the index of the dependency after the one
\* at index next, which the Locator has answered with found
AfterDependency(next, found) == next + 1

\* lines 242-331: the loop over missingDependencies, up to its next await
ContinueResolve(r, f) ==
  LET n == NextToSearch(f.allComponentsToDeploy, f.dependencies, f.next)
  IN IF n <= Len(f.dependencies)
     THEN /\ frame' = [frame EXCEPT ![r] = [f EXCEPT !.pc = "resolveDependencies", !.next = n]]
          /\ UNCHANGED <<attemptedDeployments, attemptedDeploymentDetails,
                         deploymentAttemptCounter, commandRunnerLog>>
     ELSE StartCombined(r, [f EXCEPT !.next = n])

\* lines 463-539: in the loop over newDeps only a CustomField is checked
\* against the list again
RECURSIVE NextNewToSearch(_, _, _)
NextNewToSearch(list, dependencies, n) ==
  IF n > Len(dependencies) THEN n
  ELSE IF dependencies[n].type = "CustomField" /\ FieldIncluded(list, dependencies[n])
       THEN NextNewToSearch(list, dependencies, n + 1)
  ELSE n

\* lines 463-556: the loop over newDeps up to its next await, and after it
\* the recursive call deployComponents(updatedComponentsToDeploy, depth + 1)
ContinueResolveNew(r, f) ==
  LET n == NextNewToSearch(f.updatedComponentsToDeploy, f.dependencies, f.next)
  IN IF n <= Len(f.dependencies)
     THEN /\ frame' = [frame EXCEPT ![r] = [f EXCEPT !.pc = "resolveNewDependencies", !.next = n]]
          /\ UNCHANGED <<attemptedDeployments, attemptedDeploymentDetails,
                         deploymentAttemptCounter, commandRunnerLog>>
     ELSE Enter(r, f.updatedComponentsToDeploy, f.recursionDepth + 1)

(***************************************************************************)
(* Actions.                                                                *)
(***************************************************************************)
\* the files the user can select: one file from the context menu, up to
\* MaxSelect files from the open dialog
Selections == SeqsUpTo(Workspace, MaxSelect) \ {<<>>}

\* components.push(component) for every selected file pathToComponent knows
RECURSIVE SelectedComponents(_)
SelectedComponents(files) ==
  IF files = <<>> THEN <<>>
  ELSE pathToComponent(Head(files)) \o SelectedComponents(Tail(files))

\* Spec: the user issues the next command when the previous one has ended
NoRequestInProgress == \A q \in Requests : frame[q].pc \in {"idle", "done"}

\* extension.ts, wormhole.deployComponent: the handler up to the first
\* await of orchestrator.deployComponents(components)
StartCommand(r) ==
  /\ UNCHANGED <<execution, parsed, forceIgnore, retry>>
  /\ r = started + 1
  /\ frame[r].pc = "idle"
  /\ deploymentAttemptCounter <= MaxCounterAtStart
  /\ started' = r
  /\ UNCHANGED <<deploymentQueue, deployedComponents>>
  /\ \E files \in Selections :
       LET components == SelectedComponents(files)
       IN IF components = <<>>
          THEN /\ frame' = [frame EXCEPT ![r] = Return(IdleFrame, "NoComponent", 55)]
               /\ UNCHANGED <<attemptedDeployments, attemptedDeploymentDetails,
                              deploymentAttemptCounter, commandRunnerLog>>
          ELSE Enter(r, components, 0)

\* Spec: the command, issued when the previous one has ended
Command(r) == NoRequestInProgress /\ StartCommand(r)

\* lines 110-130: isAuthenticated, the prompt, authenticate
EnsureAuthenticated(r) ==
  /\ UNCHANGED <<execution, parsed, forceIgnore, retry>>
  /\ frame[r].pc = "isAuthenticated"
  /\ \E answer \in {"authenticated", "cancel", "authenticateFailed", "authenticateOk"} :
       frame' = [frame EXCEPT ![r] =
         CASE answer = "cancel" -> Return(@, "NotAuthenticated", 128)
           [] answer = "authenticateFailed" -> Return(@, "NotAuthenticated", 125)
           [] OTHER -> [@ EXCEPT !.pc = "getDefaultOrgAlias"]]
  /\ UNCHANGED <<attemptedDeployments, attemptedDeploymentDetails, deploymentAttemptCounter,
                 deploymentQueue, deployedComponents, started, commandRunnerLog>>

\* lines 132-169: the initial attempt is sent
InitialDeploy(r) ==
  /\ UNCHANGED <<execution, parsed, forceIgnore, retry>>
  /\ frame[r].pc = "getDefaultOrgAlias"
  /\ StartDeployment(r, [frame[r] EXCEPT !.components = WithFilePaths(@)],
                     frame[r].components, "initialDeployment")
  /\ UNCHANGED <<attemptedDeployments, attemptedDeploymentDetails,
                 deploymentQueue, deployedComponents, started>>

\* what deployComponentList can return to an activation suspended in it
ReturnedResults(f) ==
  IF f.invoked THEN DeploymentResults(f.recursionDepth)
  ELSE {DeploymentResult(FALSE, CouldNotFindFile)}

\* lines 171-240: the initial attempt returns
InitialResult(r) ==
  /\ UNCHANGED <<execution, parsed, forceIgnore, retry>>
  /\ frame[r].pc = "initialDeployment"
  /\ UNCHANGED <<deployedComponents, started>>
  /\ \E initialResult \in ReturnedResults(frame[r]) :
       IF initialResult.success
       THEN /\ frame' = [frame EXCEPT ![r] =
                           Return([@ EXCEPT !.initialResult = <<initialResult>>], "Succeeded", 182)]
            /\ UNCHANGED <<attemptedDeployments, attemptedDeploymentDetails,
                           deploymentAttemptCounter, commandRunnerLog, deploymentQueue>>
       ELSE LET missingDependencies ==
                  FilterSingleDigits(parseMissingDependencies(initialResult.output))
            IN /\ deploymentQueue' =
                    Append(deploymentQueue,
                           [components |-> frame[r].components, retryCount |-> 0])
               /\ IF missingDependencies = <<>>
                  THEN /\ frame' = [frame EXCEPT ![r] =
                              Return([@ EXCEPT !.initialResult = <<initialResult>>], "Failed", 224)]
                       /\ UNCHANGED <<attemptedDeployments, attemptedDeploymentDetails,
                                      deploymentAttemptCounter, commandRunnerLog>>
                  ELSE ContinueResolve(r,
                         [frame[r] EXCEPT
                            !.initialResult = <<initialResult>>,
                            !.allComponentsToDeploy = InitialDeploymentList(frame[r].components),
                            !.dependencies = missingDependencies,
                            !.next = 1,
                            !.failedDependencies = <<>>])

\* lines 259-331: the Locator answers for one missing dependency
ResolveDependency(r) ==
  /\ UNCHANGED <<execution, parsed, forceIgnore, retry>>
  /\ frame[r].pc = "resolveDependencies"
  /\ UNCHANGED <<deploymentQueue, deployedComponents, started>>
  /\ LET f == frame[r]
         dependency == f.dependencies[f.next]
     IN \E found \in ResolvedComponents(dependency) :
          ContinueResolve(r,
            [f EXCEPT !.allComponentsToDeploy = @ \o found,
                      !.failedDependencies =
                         IF found = <<>> THEN Append(@, dependency) ELSE @,
                      !.next = @ + 1])

\* lines 385-461 and 557-609: the combined attempt returns
CombinedResult(r) ==
  /\ UNCHANGED <<execution, parsed, forceIgnore, retry>>
  /\ frame[r].pc = "combinedDeployment"
  /\ UNCHANGED <<deploymentQueue, started>>
  /\ \E combinedResult \in ReturnedResults(frame[r]) :
       LET f == [frame[r] EXCEPT !.combinedResult = <<combinedResult>>]
           list == f.allComponentsToDeploy
           newDeps == FilterNewDeps(parseMissingDependencies(combinedResult.output), list)
       IN IF combinedResult.success
          THEN /\ deployedComponents' =
                    deployedComponents \cup {ComponentKey(list[i]) : i \in 1..Len(list)}
               /\ frame' = [frame EXCEPT ![r] = Return(f, "Succeeded", 394)]
               /\ UNCHANGED <<attemptedDeployments, attemptedDeploymentDetails,
                              deploymentAttemptCounter, commandRunnerLog>>
          ELSE /\ UNCHANGED deployedComponents
               /\ IF isConflictError(combinedResult.output)
                  THEN /\ frame' = [frame EXCEPT ![r] = Return(f, "ConflictTerminated", 422)]
                       /\ UNCHANGED <<attemptedDeployments, attemptedDeploymentDetails,
                                      deploymentAttemptCounter, commandRunnerLog>>
                  ELSE IF newDeps # <<>>
                  THEN ContinueResolveNew(r,
                         [f EXCEPT !.updatedComponentsToDeploy = list,
                                   !.dependencies = newDeps,
                                   !.next = 1])
                  ELSE /\ frame' = [frame EXCEPT ![r] =
                              IF AlreadyAttempted(attemptedDeployments, list)
                              THEN Return(f, "Unresolvable", 595)
                              ELSE Return(f, "Failed", 607)]
                       /\ UNCHANGED <<attemptedDeployments, attemptedDeploymentDetails,
                                      deploymentAttemptCounter, commandRunnerLog>>

\* lines 481-538: the Locator answers for one new dependency
ResolveNewDependency(r) ==
  /\ UNCHANGED <<execution, parsed, forceIgnore, retry>>
  /\ frame[r].pc = "resolveNewDependencies"
  /\ UNCHANGED <<deploymentQueue, deployedComponents, started>>
  /\ LET f == frame[r]
         dependency == f.dependencies[f.next]
     IN \E found \in ResolvedComponents(dependency) :
          ContinueResolveNew(r,
            [f EXCEPT !.updatedComponentsToDeploy = @ \o found,
                      !.next = AfterDependency(@, found)])

Next ==
  \E r \in Requests :
    \/ Command(r)
    \/ EnsureAuthenticated(r)
    \/ InitialDeploy(r)
    \/ InitialResult(r)
    \/ ResolveDependency(r)
    \/ CombinedResult(r)
    \/ ResolveNewDependency(r)

Spec == Init /\ [][Next]_vars

\* the steps of a started activation: every await in deployComponents is on
\* an external call (the CLI, the workspace search, the prompt)
Continue(r) ==
  \/ EnsureAuthenticated(r)
  \/ InitialDeploy(r)
  \/ InitialResult(r)
  \/ ResolveDependency(r)
  \/ CombinedResult(r)
  \/ ResolveNewDependency(r)

\* LiveSpec: the user repeats the command only while no attempt has been sent
CommandBeforeAttempt(r) == deploymentAttemptCounter = 0 /\ Command(r)

LiveNext == \E r \in Requests : CommandBeforeAttempt(r) \/ Continue(r)

\* ConcurrentSpec: the command is issued whenever the user likes, also while
\* an earlier one is suspended at an await (the handler has no guard), as
\* long as the attempt counter is at most MaxConcurrentAttempts
CommandAnyTime(r) == StartCommand(r)

ContinueWithin(r) == deploymentAttemptCounter <= MaxConcurrentAttempts /\ Continue(r)

ConcurrentNext == \E r \in Requests : CommandAnyTime(r) \/ ContinueWithin(r)

ConcurrentSpec == Init /\ [][ConcurrentNext]_vars

\* SignatureSpec: deployComponents is called with lists of the components of
\* the workspace in any order; each call runs up to its first await
WorkspaceComponents == {pathToComponent(f)[1] : f \in {g \in Workspace : pathToComponent(g) # <<>>}}

ComponentLists == SeqsUpTo(WorkspaceComponents, MaxListLen) \ {<<>>}

CallDeployComponents(r) ==
  /\ UNCHANGED <<execution, parsed, forceIgnore, retry>>
  /\ r = started + 1
  /\ frame[r].pc = "idle"
  /\ started' = r
  /\ UNCHANGED <<deploymentQueue, deployedComponents>>
  /\ \E components \in ComponentLists : Enter(r, components, 0)

SignatureNext == \E r \in Requests : CallDeployComponents(r)

\* DirectSpec: deployComponents is called once with a list of descriptors of
\* any kind, with or without a file path, and runs to its end
DirectComponents ==
  WorkspaceComponents
    \cup {Dependency("ApexClass", <<"Foo">>), Dependency("ApexClass", <<"Nope">>),
          Dependency("CustomField", <<"Account", ".", "Bar", "__c">>)}

DirectLists == SeqsUpTo(DirectComponents, MaxDirectLen) \ {<<>>}

CallDirect(r) ==
  /\ UNCHANGED <<execution, parsed, forceIgnore, retry>>
  /\ started = 0
  /\ r = 1
  /\ frame[r].pc = "idle"
  /\ started' = r
  /\ UNCHANGED <<deploymentQueue, deployedComponents>>
  /\ \E components \in DirectLists : Enter(r, components, 0)

DirectNext == \E r \in Requests : CallDirect(r) \/ Continue(r)

DirectSpec == Init /\ [][DirectNext]_vars

SignatureSpec == Init /\ [][SignatureNext]_vars

\* ExecuteSpec: executeCommand is called once (it keeps no state between
\* calls), and the CLI ends with any stdout, stderr and exit code
ExecuteCommand ==
  /\ execution = NoExecution
  /\ \E stdout \in Texts, stderr \in Texts, failed \in BOOLEAN :
       execution' = [stdout |-> stdout, stderr |-> stderr, failed |-> failed,
                     result |-> <<executeCommand(stdout, stderr, failed)>>,
                     again |-> <<>>]
  /\ UNCHANGED <<attemptedDeployments, attemptedDeploymentDetails, deploymentAttemptCounter,
                 deploymentQueue, deployedComponents, frame, started, commandRunnerLog,
                 parsed, forceIgnore, retry>>

ExecuteSpec == Init /\ [][ExecuteCommand]_vars

(***************************************************************************)
(* The classification of one raw output: executeCommand on what the CLI    *)
(* wrote, the ErrorParser on an output, and each of them a second time on  *)
(* the same input.                                                         *)
(***************************************************************************)
\* the phrases of the outputs given to the ErrorParser
ParsePhrases ==
  { Phrase("ClassDoesNotExist", <<"Foo">>, <<>>),
    Phrase("InvalidType", <<"Inv">>, <<>>),
    Phrase("InvalidType", <<"5">>, <<>>),
    Phrase("DependentClassInvalid", <<"Foo", "Bar">>, <<>>),
    Phrase("SObjectType", <<"Inv", "__c">>, <<>>),
    Phrase("NoSuchColumn", <<"Bar", "__c">>, <<"Account">>),
    Phrase("VariableDoesNotExist", <<"Bar", "__c">>, <<>>),
    Phrase("VariableDoesNotExist", <<"Nope">>, <<>>),
    Phrase("VariableDoesNotExist", <<"X">>, <<>>),
    Phrase("VariableDoesNotExist", <<"5">>, <<>>),
    Phrase("TypeNotVisible", <<"Bar">>, <<>>),
    Phrase("Conflict", <<"Foo">>, <<"ApexClass">>),
    Phrase("LineCol", <<>>, <<>>),
    Phrase("Other", <<>>, <<>>) }

\* the lines of one phrase
OnePhraseLines == {<<ph>> : ph \in ParsePhrases}

\* outputs of up to MaxParseLines lines of one phrase, and outputs of one
\* line of up to MaxPhrases phrases
ParseOutputs ==
  SeqsUpTo(OnePhraseLines, MaxParseLines)
    \cup {<<line>> : line \in SeqsUpTo(ParsePhrases, MaxPhrases) \ {<<>>}}

\* the parser remembers, from one call to the next, the keys it has returned
ParseResultRemembering(output) ==
  LET returned ==
        UNION {{ComponentKey(parsed[i].dependencies[j]) :
                  j \in 1..Len(parsed[i].dependencies)} : i \in 1..Len(parsed)}
  IN [output |-> output,
      dependencies |-> deduplicateFrom(ParseLines(output), returned),
      conflict |-> isConflictError(output),
      conflicts |-> parseConflictComponents(output)]

\* what the public methods of the ErrorParser return for an output
ParseResult(output) ==
  [output |-> output,
   dependencies |-> parseMissingDependencies(output),
   conflict |-> isConflictError(output),
   conflicts |-> parseConflictComponents(output)]

\* the first call of executeCommand
ExecuteFirst == parsed = <<>> /\ ExecuteCommand

\* executeCommand called again, the CLI writing the same as before
ExecuteAgain ==
  /\ execution.result # <<>>
  /\ execution.again = <<>>
  /\ execution' =
       [execution EXCEPT !.again = <<executeCommand(execution.stdout, execution.stderr,
                                                    execution.failed)>>]
  /\ UNCHANGED <<attemptedDeployments, attemptedDeploymentDetails, deploymentAttemptCounter,
                 deploymentQueue, deployedComponents, frame, started, commandRunnerLog,
                 parsed, forceIgnore, retry>>

\* the ErrorParser called on an output
ParseOutput ==
  /\ parsed = <<>>
  /\ execution = NoExecution
  /\ \E output \in ParseOutputs : parsed' = <<ParseResult(output)>>
  /\ UNCHANGED <<attemptedDeployments, attemptedDeploymentDetails, deploymentAttemptCounter,
                 deploymentQueue, deployedComponents, frame, started, commandRunnerLog,
                 execution, forceIgnore, retry>>

\* the ErrorParser called again on the same output
ParseAgain ==
  /\ parsed # <<>>
  /\ Len(parsed) < MaxParseCalls
  /\ parsed' = Append(parsed, ParseResult(parsed[1].output))
  /\ UNCHANGED <<attemptedDeployments, attemptedDeploymentDetails, deploymentAttemptCounter,
                 deploymentQueue, deployedComponents, frame, started, commandRunnerLog,
                 execution, forceIgnore, retry>>

ClassifyNext == ExecuteFirst \/ ExecuteAgain \/ ParseOutput \/ ParseAgain

ClassifySpec == Init /\ [][ClassifyNext]_vars

(***************************************************************************)
(* Extraction and resolution: the commands of the extension, or else the   *)
(* ErrorParser on an output of its own.                                    *)
(***************************************************************************)
\* a step of a command, the ErrorParser not called on its own
CommandStep == parsed = <<>> /\ Next

\* the ErrorParser called on an output, no command issued
ParseAlone == started = 0 /\ ParseOutput

ExtractionNext == CommandStep \/ ParseAlone \/ ParseAgain

ExtractionSpec == Init /\ [][ExtractionNext]_vars

(***************************************************************************)
(* ForceIgnoreHandler and CLIExecutor.deployComponents.  The content of    *)
(* the file is the sequence of the pieces of text it is made of; a file is *)
(* <<>> when it does not exist and <<content>> when it does.               *)
(***************************************************************************)
\* path.relative(workspaceRoot, conversationMsgDefsPath), separators normalised
IgnorePattern == "force-app/main/default/conversationMessageDefinitions"

\* pieces of text the pattern is a substring of
PatternPieces == {IgnorePattern, "force-app/main/default/conversationMessageDefinitions/**"}

\* `\n${wormholeSection}`
WormholeSection ==
  <<"\n", "# Wormhole temporary exclusions", "\n", IgnorePattern, "\n">>

\* the .forceignore files a workspace can have
WorkspaceForceIgnores ==
  { <<>>,
    << <<>> >>,
    << <<"node_modules", "\n">> >>,
    << <<"node_modules">> >>,
    << <<IgnorePattern, "\n">> >>,
    << <<"node_modules", "\n", "force-app/main/default/conversationMessageDefinitions/**">> >> }

\* the pattern is looked for in no content
IncludesPatternNever(content) == FALSE

\* content.includes(ignorePattern)
IncludesPattern(content) == \E i \in 1..Len(content) : content[i] \in PatternPieces

\* addExclusion on a new handler: the file and the handler after it
addExclusion(file) ==
  LET originalContent == file
      content == IF file # <<>> THEN file[1] ELSE <<>>
  IN IF IncludesPattern(content)
     THEN [file |-> file,
           handler |-> [pc |-> "createTempPackageXml", originalContent |-> originalContent,
                        addedEntries |-> <<>>]]
     ELSE [file |-> <<content \o WormholeSection>>,
           handler |-> [pc |-> "createTempPackageXml", originalContent |-> originalContent,
                        addedEntries |-> <<IgnorePattern>>]]

\* restore: the file and the handler after it
restore(file, handler) ==
  IF handler.addedEntries = <<>> THEN [file |-> file, handler |-> handler]
  ELSE [file |-> handler.originalContent,
        handler |-> [handler EXCEPT !.addedEntries = <<>>]]

\* the extension is activated in a workspace
OpenWorkspace ==
  /\ ~forceIgnore.opened
  /\ \E file \in WorkspaceForceIgnores :
       forceIgnore' = [forceIgnore EXCEPT !.opened = TRUE, !.workspace = file, !.file = file]
  /\ UNCHANGED <<attemptedDeployments, attemptedDeploymentDetails, deploymentAttemptCounter,
                 deploymentQueue, deployedComponents, frame, started, commandRunnerLog,
                 execution, parsed, retry>>

\* part_001:455-513: CLIExecutor.deployComponents up to its first await
DeployComponents(h) ==
  /\ forceIgnore.opened
  /\ forceIgnore.handlers[h].pc = "idle"
  /\ \A g \in 1..(h - 1) : forceIgnore.handlers[g].pc # "idle"
  /\ LET added == addExclusion(forceIgnore.file)
     IN forceIgnore' = [forceIgnore EXCEPT !.file = added.file, !.handlers[h] = added.handler]
  /\ UNCHANGED <<attemptedDeployments, attemptedDeploymentDetails, deploymentAttemptCounter,
                 deploymentQueue, deployedComponents, frame, started, commandRunnerLog,
                 execution, parsed, retry>>

\* part_001:513-571: createTempPackageXml returns, or it throws and the
\* catch of the inner try restores and throws again
PackageXmlCreated(h) ==
  /\ forceIgnore.handlers[h].pc = "createTempPackageXml"
  /\ \E thrown \in BOOLEAN :
       IF thrown
       THEN LET restored == restore(forceIgnore.file, forceIgnore.handlers[h])
            IN forceIgnore' = [forceIgnore EXCEPT
                 !.file = restored.file,
                 !.handlers[h] = [restored.handler EXCEPT !.pc = "thrown"]]
       ELSE forceIgnore' = [forceIgnore EXCEPT !.handlers[h].pc = "executeCommand"]
  /\ UNCHANGED <<attemptedDeployments, attemptedDeploymentDetails, deploymentAttemptCounter,
                 deploymentQueue, deployedComponents, frame, started, commandRunnerLog,
                 execution, parsed, retry>>

\* part_001:567-605: executeCommand returns and the file is restored, then
\* saveDeploymentResponse returns or throws; or executeCommand throws; every
\* throw is caught by the inner catch, which restores and throws again
CommandExecuted(h) ==
  /\ forceIgnore.handlers[h].pc = "executeCommand"
  /\ \E ending \in {"returned", "executeCommandThrown", "saveResponseThrown"} :
       LET restored == restore(forceIgnore.file, forceIgnore.handlers[h])
           again == restore(restored.file, restored.handler)
       IN forceIgnore' = [forceIgnore EXCEPT
            !.file = IF ending = "saveResponseThrown" THEN again.file ELSE restored.file,
            !.handlers[h] =
               [(IF ending = "saveResponseThrown" THEN again.handler ELSE restored.handler)
                  EXCEPT !.pc = IF ending = "returned" THEN "returned" ELSE "thrown"]]
  /\ UNCHANGED <<attemptedDeployments, attemptedDeploymentDetails, deploymentAttemptCounter,
                 deploymentQueue, deployedComponents, frame, started, commandRunnerLog,
                 execution, parsed, retry>>

ForceIgnoreNext ==
  \/ OpenWorkspace
  \/ \E h \in 1..MaxOverlap : DeployComponents(h) \/ PackageXmlCreated(h) \/ CommandExecuted(h)

ForceIgnoreSpec == Init /\ [][ForceIgnoreNext]_vars

(***************************************************************************)
(* retryQueuedDeployments.  The method is private and no code calls it;    *)
(* RetrySpec calls it after a command has ended.  The deployComponents it  *)
(* awaits runs in the last frame.                                          *)
(***************************************************************************)
\* StateManager.maxRetries
maxRetries == 3

\* StateManager.queueDeployment(components)
queueDeployment(queue, components) ==
  Append(queue, [components |-> components, retryCount |-> 0])

\* StateManager.incrementRetry(item): the item after item.retryCount++, and
\* the value returned
incrementRetry(item) ==
  [item |-> [item EXCEPT !.retryCount = @ + 1],
   return |-> item.retryCount + 1 < maxRetries]

\* if (incrementRetry(queuedItem)) queueDeployment(queuedItem.components)
QueueForRetryAgain(queue, queuedItem) ==
  IF incrementRetry(queuedItem).return
  THEN queueDeployment(queue, queuedItem.components)
  ELSE queue

\* the head of the loop: the items taken from the queue and passed over
\* with "Max retries reached" are dropped
RECURSIVE SkipMaxRetriesReached(_)
SkipMaxRetriesReached(queue) ==
  IF queue = <<>> THEN <<>>
  ELSE IF Head(queue).retryCount >= 3 THEN SkipMaxRetriesReached(Tail(queue))
  ELSE queue

\* lines 670-697: from the test of the loop to the next await, with the
\* queue as the previous iteration left it; deployComponentList calls the
\* Command Runner unless a component is left without a file
RetryLoop(queue) ==
  LET rest == SkipMaxRetriesReached(queue)
  IN IF rest = <<>>
     THEN /\ deploymentQueue' = <<>>
          /\ retry' = [retry EXCEPT !.pc = "done", !.queuedItem = <<>>]
          /\ UNCHANGED deploymentAttemptCounter
     ELSE /\ deploymentQueue' = Tail(rest)
          /\ deploymentAttemptCounter' = deploymentAttemptCounter + 1
          /\ retry' =
               [pc |-> "deployComponentList",
                queuedItem |-> <<Head(rest)>>,
                invoked |-> ~FileNotFound(Head(rest).components),
                deployed |->
                  IF FileNotFound(Head(rest).components) THEN retry.deployed
                  ELSE Append(retry.deployed,
                              [components |-> Head(rest).components,
                               attemptNumber |-> deploymentAttemptCounter + 1])]

\* retryQueuedDeployments is called when the command has ended
CallRetryQueuedDeployments ==
  /\ deploymentAttemptCounter < MaxRetryAttempts
  /\ retry.pc = "idle"
  /\ started = 1
  /\ NoRequestInProgress
  /\ RetryLoop(deploymentQueue)
  /\ UNCHANGED <<attemptedDeployments, attemptedDeploymentDetails, deployedComponents,
                 frame, started, commandRunnerLog, execution, parsed, forceIgnore>>

\* lines 693-739: deployComponentList returns
RetryResult ==
  /\ deploymentAttemptCounter < MaxRetryAttempts
  /\ retry.pc = "deployComponentList"
  /\ LET queuedItem == retry.queuedItem[1]
     IN \E result \in (IF retry.invoked THEN DeploymentResults(0)
                       ELSE {DeploymentResult(FALSE, CouldNotFindFile)}) :
          IF result.success
          THEN /\ deployedComponents' =
                    deployedComponents
                      \cup {ComponentKey(queuedItem.components[i]) :
                              i \in 1..Len(queuedItem.components)}
               /\ RetryLoop(deploymentQueue)
               /\ UNCHANGED <<attemptedDeployments, attemptedDeploymentDetails, frame,
                              commandRunnerLog>>
          ELSE LET newDependencies == parseMissingDependencies(result.output)
               IN IF newDependencies # <<>>
                  THEN /\ Enter(MaxRequests, newDependencies, 0)
                       /\ retry' = [retry EXCEPT !.pc = "deployComponents"]
                       /\ UNCHANGED <<deploymentQueue, deployedComponents>>
                  ELSE /\ RetryLoop(QueueForRetryAgain(deploymentQueue, queuedItem))
                       /\ UNCHANGED <<attemptedDeployments, attemptedDeploymentDetails,
                                      deployedComponents, frame, commandRunnerLog>>
  /\ UNCHANGED <<started, execution, parsed, forceIgnore>>

\* lines 714-720: deployComponents(newDependencies) returns
RetryDependenciesDeployed ==
  /\ deploymentAttemptCounter < MaxRetryAttempts
  /\ retry.pc = "deployComponents"
  /\ frame[MaxRequests].pc = "done"
  /\ RetryLoop(QueueForRetryAgain(deploymentQueue, retry.queuedItem[1]))
  /\ UNCHANGED <<attemptedDeployments, attemptedDeploymentDetails, deployedComponents,
                 frame, started, commandRunnerLog, execution, parsed, forceIgnore>>

\* RetrySpec: one command, then retryQueuedDeployments
FirstCommand == started = 0 /\ Command(1)

ContinueWithinRetry(r) == deploymentAttemptCounter < MaxRetryAttempts /\ Continue(r)

RetryNext ==
  \/ FirstCommand
  \/ \E r \in Requests : ContinueWithinRetry(r)
  \/ CallRetryQueuedDeployments
  \/ RetryResult
  \/ RetryDependenciesDeployed

RetrySpec == Init /\ [][RetryNext]_vars

\* every external call returns: a suspended activation is resumed
LiveSpec == Init /\ [][LiveNext]_vars /\ \A r \in Requests : WF_vars(Continue(r))

(***************************************************************************)
(* The calls of the Command Runner one command makes.                      *)
(***************************************************************************)
\* the identities (type, name) of a component list
Identities(list) == {ComponentKey(list[i]) : i \in 1..Len(list)}

\* the number of expansions: attempts made with a list other than the list
\* of the attempt before
Expansions(r) ==
  Cardinality({i \in 2..Len(commandRunnerLog[r]) :
                 commandRunnerLog[r][i].components # commandRunnerLog[r][i-1].components})

\* the step is an entry of deployComponents for command r, top-level or
\* recursive; frame'[r] then holds the list and the depth it is entered with
EnteredDeployComponents(r) ==
  \/ frame[r].pc = "idle" /\ frame'[r].pc # "idle" /\ frame'[r].outcome # "NoComponent"
  \/ frame'[r].recursionDepth = frame[r].recursionDepth + 1

(***************************************************************************)
(* C1. Loop invariant: when deployComponents is entered at a depth of at   *)
(* most 5 with a list whose signature is already in attemptedDeployments,  *)
(* the invocation ends at once with the loop-detected (Unresolvable)       *)
(* outcome and the Command Runner is not called, then or later.            *)
(***************************************************************************)
C1_LoopDetectedAtEntry ==
  [][\A r \in Requests :
       /\ ( /\ EnteredDeployComponents(r)
            /\ frame'[r].recursionDepth <= 5
            /\ getComponentSignature(frame'[r].components) \in attemptedDeployments )
          => /\ frame'[r].pc = "done"
             /\ frame'[r].outcome = "Unresolvable"
             /\ commandRunnerLog'[r] = commandRunnerLog[r]
       /\ frame[r].pc = "done"
          => frame'[r] = frame[r] /\ commandRunnerLog'[r] = commandRunnerLog[r]]_vars

\* a recursive entry ended as loop detected, after two attempts
C1_Witness ==
  \E r \in Requests :
    /\ frame[r].exit = 93
    /\ frame[r].recursionDepth = 1
    /\ Len(commandRunnerLog[r]) = 2

(***************************************************************************)
(* C2. Within one command the Command Runner is called at most once per    *)
(* signature: no two of its calls carry lists of the same signature.       *)
(***************************************************************************)
C2_OncePerSignature ==
  \A r \in Requests :
    \A i, j \in 1..Len(commandRunnerLog[r]) :
      i < j => getComponentSignature(commandRunnerLog[r][i].components)
                 # getComponentSignature(commandRunnerLog[r][j].components)

(***************************************************************************)
(* C3. AttemptMemory is per command: a top-level command does not end as   *)
(* loop detected at its own entry, because no signature of an earlier      *)
(* command is left in attemptedDeployments when it starts.                 *)
(***************************************************************************)
C3_MemoryIsPerRequest ==
  \A r \in Requests :
    ~(frame[r].pc = "done" /\ frame[r].recursionDepth = 0 /\ frame[r].exit = 93)

(***************************************************************************)
(* C4. DepthExceeded is the outcome exactly of the entries at a recursion  *)
(* depth above 5: it is reached at depth 6 and at no other depth, an       *)
(* activation at depth 6 is ended at once, and no call of the Command      *)
(* Runner is made at a depth above 5.                                      *)
(***************************************************************************)
C4_DepthExceededExactlyAbove5 ==
  \A r \in Requests :
    /\ frame[r].outcome = "DepthExceeded" <=> frame[r].recursionDepth > 5
    /\ frame[r].outcome = "DepthExceeded" =>
         frame[r].pc = "done" /\ frame[r].exit = 52 /\ frame[r].recursionDepth = 6
    /\ \A i \in 1..Len(commandRunnerLog[r]) : commandRunnerLog[r][i].recursionDepth <= 5

\* a chain that never stabilises: twelve attempts, then the stop at depth 6
C4_Witness ==
  \E r \in Requests :
    /\ frame[r].outcome = "DepthExceeded"
    /\ Len(commandRunnerLog[r]) = 12

C6_Termination ==
  \A r \in Requests :
    (frame[r].pc \notin {"idle", "done"})
      ~> (frame[r].pc = "done" /\
          frame[r].outcome \in {"Succeeded", "ConflictTerminated", "Unresolvable",
                                "Failed", "DepthExceeded", "NotAuthenticated"})

\* the longest lineage has ended: twelve attempts over the depths 0..5
C6_Witness ==
  \E r \in Requests :
    /\ frame[r].pc = "done"
    /\ Len(commandRunnerLog[r]) = 12
    /\ frame[r].recursionDepth = 6

\* the results the activation of command r has received so far
ResultsReceived(r) == frame[r].initialResult \o frame[r].combinedResult

(***************************************************************************)
(* C7. Conflict is terminal for every attempt: once an attempt, initial or *)
(* combined, has returned a failure whose output carries a conflict        *)
(* marker, the command has ended as a conflict failure, so that no further *)
(* call of the Command Runner follows.                                     *)
(***************************************************************************)
C7_ConflictIsTerminal ==
  \A r \in Requests :
    \A i \in 1..Len(ResultsReceived(r)) :
      (~ResultsReceived(r)[i].success /\ isConflictError(ResultsReceived(r)[i].output))
        => (frame[r].pc = "done" /\ frame[r].outcome = "ConflictTerminated")

(***************************************************************************)
(* C8. When the dependencies extracted from a failed attempt are all       *)
(* satisfied by the current list already, the command ends as Unresolvable *)
(* and the Command Runner is not called again, after the initial attempt   *)
(* as well as after a combined attempt.                                    *)
(***************************************************************************)
C8_NothingNewIsUnresolvable ==
  \A r \in Requests :
    LET f == frame[r]
        missingDependencies ==
          FilterSingleDigits(parseMissingDependencies(f.initialResult[1].output))
    IN /\ ( /\ f.initialResult # <<>>
            /\ ~f.initialResult[1].success
            /\ missingDependencies # <<>>
            /\ \A i \in 1..Len(missingDependencies) :
                 AlreadyIncluded(f.components, missingDependencies[i]) )
          => (f.pc = "done" /\ f.outcome = "Unresolvable")
       /\ ( /\ f.combinedResult # <<>>
            /\ ~f.combinedResult[1].success
            /\ ~isConflictError(f.combinedResult[1].output)
            /\ FilterNewDeps(parseMissingDependencies(f.combinedResult[1].output),
                             f.allComponentsToDeploy) = <<>> )
          => (f.pc = "done" /\ f.outcome = "Unresolvable")

(***************************************************************************)
(* C9. Strict growth: every call of the Command Runner after the first of  *)
(* a command carries a list whose set of identities strictly contains the  *)
(* set of the call before.                                                 *)
(***************************************************************************)
C9_StrictGrowth ==
  \A r \in Requests :
    \A i \in 2..Len(commandRunnerLog[r]) :
      /\ Identities(commandRunnerLog[r][i-1].components)
           \subseteq Identities(commandRunnerLog[r][i].components)
      /\ Identities(commandRunnerLog[r][i-1].components)
           # Identities(commandRunnerLog[r][i].components)

(***************************************************************************)
(* C10. Monotonicity: every descriptor in the list of an earlier call of   *)
(* the Command Runner is in the list of every later call of the same       *)
(* command.                                                                *)
(***************************************************************************)
C10_Monotonicity ==
  \A r \in Requests :
    \A i, j \in 1..Len(commandRunnerLog[r]) :
      i < j =>
        \A k \in 1..Len(commandRunnerLog[r][i].components) :
          \E m \in 1..Len(commandRunnerLog[r][j].components) :
            commandRunnerLog[r][j].components[m] = commandRunnerLog[r][i].components[k]

\* three calls, the last with two descriptors more than the first
C10_Witness ==
  \E r \in Requests :
    /\ Len(commandRunnerLog[r]) >= 3
    /\ Cardinality(Identities(commandRunnerLog[r][3].components))
         >= Cardinality(Identities(commandRunnerLog[r][1].components)) + 2

\* two descriptors have the same identity: kind and name, a CustomField's
\* name compared by its last segment
SameIdentity(a, b) ==
  /\ a.type = b.type
  /\ IF a.type = "CustomField"
     THEN LastSegment(a.name) = LastSegment(b.name)
     ELSE a.name = b.name

(***************************************************************************)
(* C11. DeploymentSet invariant: no list passed to the Command Runner      *)
(* holds two descriptors of the same identity.                             *)
(***************************************************************************)
C11_NoTwoShareIdentity ==
  \A r \in Requests :
    \A i \in 1..Len(commandRunnerLog[r]) :
      LET list == commandRunnerLog[r][i].components
      IN \A k, m \in 1..Len(list) : k # m => ~SameIdentity(list[k], list[m])

(***************************************************************************)
(* C12. Whenever a command ends in success with deployment set D, on the   *)
(* initial attempt of any depth or on a combined attempt, every descriptor *)
(* of D is marked deployed in the StateManager.                            *)
(***************************************************************************)
C12_SuccessMarksDeployed ==
  \A r \in Requests :
    frame[r].outcome = "Succeeded" =>
      LET D == IF frame[r].combinedResult # <<>>
               THEN frame[r].allComponentsToDeploy ELSE frame[r].components
      IN \A k \in 1..Len(D) : isDeployed(deployedComponents, D[k])

(***************************************************************************)
(* C13. A failed attempt whose output yields no dependency at all ends the *)
(* command as the generic failure, not as the loop-detected outcome, after *)
(* the initial attempt as well as after a combined attempt.                *)
(***************************************************************************)
C13_UnknownFailureIsGeneric ==
  \A r \in Requests :
    \A i \in 1..Len(ResultsReceived(r)) :
      ( /\ ~ResultsReceived(r)[i].success
        /\ ~isConflictError(ResultsReceived(r)[i].output)
        /\ parseMissingDependencies(ResultsReceived(r)[i].output) = <<>> )
        => (frame[r].pc = "done" /\ frame[r].outcome = "Failed")

\* findObjectForField or findComponentFile returns null for the dependency
LocatorFindsNothing(dep) ==
  IF dep.type = "CustomField" THEN findObjectForField(dep.name) = {}
  ELSE findComponentFile(dep) = {}

(***************************************************************************)
(* C14. A dependency the Locator cannot resolve is not added to the        *)
(* deployment list, and the resolution goes on: in the first loop to the   *)
(* next dependency or to the combined attempt with the list as resolved,   *)
(* in the second loop to the next dependency or to the recursive call with *)
(* the list as resolved.                                                   *)
(***************************************************************************)
C14_UnresolvedIsSkipped ==
  [][\A r \in Requests :
       LET f == frame[r]
           g == frame'[r]
       IN /\ ( /\ f.pc = "resolveDependencies"
               /\ g # f
               /\ LocatorFindsNothing(f.dependencies[f.next]) )
             => /\ g.allComponentsToDeploy = f.allComponentsToDeploy
                /\ g.failedDependencies = Append(f.failedDependencies, f.dependencies[f.next])
                /\ \/ g.pc = "resolveDependencies" /\ g.next > f.next
                   \/ /\ g.pc = "combinedDeployment"
                      /\ Len(commandRunnerLog'[r]) = Len(commandRunnerLog[r]) + 1
                      /\ commandRunnerLog'[r][Len(commandRunnerLog'[r])].components
                           = f.allComponentsToDeploy
          /\ ( /\ f.pc = "resolveNewDependencies"
               /\ g # f
               /\ LocatorFindsNothing(f.dependencies[f.next]) )
             => \/ /\ g.pc = "resolveNewDependencies"
                   /\ g.next > f.next
                   /\ g.updatedComponentsToDeploy = f.updatedComponentsToDeploy
                \/ /\ g.recursionDepth = f.recursionDepth + 1
                   /\ g.components = f.updatedComponentsToDeploy]_vars

\* Nope was not found, Foo was, and the combined attempt is under way with
\* Foo added
C14_Witness ==
  \E r \in Requests :
    /\ frame[r].pc = "combinedDeployment"
    /\ frame[r].failedDependencies # <<>>
    /\ Len(frame[r].allComponentsToDeploy) > Len(frame[r].components)
    /\ frame[r].invoked

(***************************************************************************)
(* C15. The Auth Provider is consulted once per command, before the first  *)
(* call of the Command Runner, and not on the recursive levels: an         *)
(* activation waiting for isAuthenticated is at depth 0 and has called the *)
(* Command Runner not yet.                                                 *)
(***************************************************************************)
C15_AuthOncePerRequest ==
  \A r \in Requests :
    frame[r].pc = "isAuthenticated" =>
      (frame[r].recursionDepth = 0 /\ commandRunnerLog[r] = <<>>)

\* the commands in progress
InProgress == {r \in Requests : frame[r].pc \notin {"idle", "done"}}

\* the commands with a call of the Command Runner in flight
InFlight ==
  {r \in Requests : frame[r].pc \in {"initialDeployment", "combinedDeployment"}
                      /\ frame[r].invoked}

(***************************************************************************)
(* C16. One request at a time: at any time at most one command is in       *)
(* progress and at most one call of the Command Runner is in flight, also  *)
(* when the command is issued again while an earlier one is suspended.     *)
(***************************************************************************)
C16_OneRequestAtATime ==
  Cardinality(InProgress) <= 1 /\ Cardinality(InFlight) <= 1

\* the number of descriptors of the list with the key
CountOf(list, key) == Cardinality({i \in 1..Len(list) : ComponentKey(list[i]) = key})

\* the two lists have the same members, in whatever order
SameMembers(a, b) ==
  /\ Len(a) = Len(b)
  /\ \A key \in Identities(a) \cup Identities(b) : CountOf(a, key) = CountOf(b, key)

(***************************************************************************)
(* C17. The signature is independent of the order: two lists of the same   *)
(* members have the same signature, so that of two calls of                *)
(* deployComponents with such lists the second ends as loop detected       *)
(* without calling the Command Runner.                                     *)
(***************************************************************************)
C17_SignatureOrderIndependent ==
  \A r1, r2 \in Requests :
    ( /\ r1 < r2
      /\ frame[r1].pc # "idle"
      /\ frame[r2].pc # "idle"
      /\ SameMembers(frame[r1].components, frame[r2].components) )
    => /\ getComponentSignature(frame[r1].components)
            = getComponentSignature(frame[r2].components)
       /\ frame[r2].pc = "done"
       /\ frame[r2].outcome = "Unresolvable"
       /\ commandRunnerLog[r2] = <<>>

\* the second call was made with the two components of the first in the
\* other order, and ended at the loop check
C17_Witness ==
  \E r1, r2 \in Requests :
    /\ r1 < r2
    /\ Len(frame[r1].components) = 2
    /\ frame[r1].components # frame[r2].components
    /\ SameMembers(frame[r1].components, frame[r2].components)
    /\ frame[r2].exit = 93

\* the call of executeCommand has returned
Executed == execution.result # <<>>

\* a success marker is in what the CLI has written
SuccessMarkerWritten ==
  isDeploymentSuccess(execution.stdout) \/ isDeploymentSuccess(execution.stderr)

(***************************************************************************)
(* C18. Success precedence: a command whose output holds a success marker  *)
(* is returned by executeCommand as a success, whatever else stdout and    *)
(* stderr hold and whether or not the CLI process ended with an error.     *)
(***************************************************************************)
C18_SuccessPrecedence ==
  (Executed /\ SuccessMarkerWritten) => execution.result[1].success

\* a genuine failure marker is in what the CLI has written
FailureMarkerWritten ==
  \E pattern \in {"component failures", "does not exist", "invalid type:"} :
    Includes(execution.stdout, pattern) \/ Includes(execution.stderr, pattern)

\* the finalization pattern is in what the CLI has written
FinalizationWritten ==
  \/ Includes(execution.stdout, "missing message metadata.transfer:finalizing")
  \/ Includes(execution.stderr, "missing message metadata.transfer:finalizing")

(***************************************************************************)
(* C19. Genuine failures are reported: an output with a genuine failure    *)
(* marker, no success marker and no finalization pattern is returned with  *)
(* success = false, also when the CLI process ended with exit code 0.      *)
(***************************************************************************)
C19_GenuineFailureReported ==
  (Executed /\ FailureMarkerWritten /\ ~SuccessMarkerWritten /\ ~FinalizationWritten)
    => ~execution.result[1].success

\* "does not exist" on stdout of a CLI that ended with exit code 0
C19_Witness ==
  /\ Executed
  /\ ~execution.failed
  /\ Includes(execution.stdout, "does not exist")
  /\ execution.stderr = <<>>
  /\ ~execution.result[1].success

(***************************************************************************)
(* C20. Finalization quirk: when stderr holds the finalization pattern and *)
(* no 'component failures' marker, executeCommand returns success, on the  *)
(* normal and on the non-zero-exit path; when stderr holds the pattern     *)
(* together with a 'component failures' marker and there is no success     *)
(* marker, the result is not a success.                                    *)
(***************************************************************************)
C20_FinalizationQuirk ==
  Executed =>
    /\ ( /\ Includes(execution.stderr, "missing message metadata.transfer:finalizing")
         /\ ~Includes(execution.stderr, "component failures") )
       => execution.result[1].success
    /\ ( /\ Includes(execution.stderr, "missing message metadata.transfer:finalizing")
         /\ Includes(execution.stderr, "component failures")
         /\ ~SuccessMarkerWritten )
       => ~execution.result[1].success

\* the CLI ended with an error, stderr holds the finalization pattern next to
\* other text, and the result is a success
C20_Witness ==
  /\ Executed
  /\ execution.failed
  /\ execution.stderr = <<"warning", "missing message metadata.transfer:finalizing">>
  /\ execution.result[1].success

\* stderr holds validation-warning text and nothing else
ValidationWarningOnlyWritten ==
  /\ execution.stderr # <<>>
  /\ \A i \in 1..Len(execution.stderr) :
       execution.stderr[i] = "could not infer a metadata type"

(***************************************************************************)
(* C21. Validation-warning-only results are non-fatal: when stderr holds   *)
(* only validation-warning patterns and the output has no actual-error     *)
(* marker, executeCommand returns success, on the normal and on the        *)
(* non-zero-exit path.                                                     *)
(***************************************************************************)
C21_ValidationWarningNonFatal ==
  (Executed /\ ValidationWarningOnlyWritten /\ ~FailureMarkerWritten)
    => execution.result[1].success

\* the place of the first descriptor of an identity in a list
FirstOccurrence(list, key) ==
  CHOOSE i \in 1..Len(list) :
    /\ ComponentKey(list[i]) = key
    /\ \A j \in 1..(i - 1) : ComponentKey(list[j]) # key

(***************************************************************************)
(* C22. Extraction deduplication: parseMissingDependencies returns each    *)
(* identity (type, name) the lines of the output name, each at most once,  *)
(* in the order of their first occurrence in the output.                   *)
(***************************************************************************)
C22_EachIdentityOnceInOrder ==
  \A c \in 1..Len(parsed) :
    LET returned == parsed[c].dependencies
        named == ParseLines(parsed[c].output)
    IN /\ \A i, j \in 1..Len(returned) :
            i < j => ComponentKey(returned[i]) # ComponentKey(returned[j])
       /\ Identities(returned) = Identities(named)
       /\ \A i, j \in 1..Len(returned) :
            i < j => FirstOccurrence(named, ComponentKey(returned[i]))
                       < FirstOccurrence(named, ComponentKey(returned[j]))

\* three lines, the third naming the class of the first again: two
\* descriptors are returned, the class first
C22_Witness ==
  /\ parsed # <<>>
  /\ LET named == ParseLines(parsed[1].output)
     IN /\ Len(named) = 3
        /\ ComponentKey(named[1]) = ComponentKey(named[3])
        /\ ComponentKey(named[1]) # ComponentKey(named[2])
        /\ parsed[1].dependencies = <<named[1], named[2]>>

C24_QueueEmptyAtTermination ==
  \A r \in Requests :
    (frame[r].pc = "done" /\ NoRequestInProgress) => deploymentQueue = <<>>

\* the rules of the extraction table, first priority first
RuleOrder ==
  <<"ClassDoesNotExist", "InvalidType", "DependentClassInvalid", "SObjectType",
    "NoSuchColumn", "VariableDoesNotExist", "TypeNotVisible">>

RuleRank(pat) == CHOOSE i \in 1..Len(RuleOrder) : RuleOrder[i] = pat

\* the phrases of a line a rule of the table matches
RulePhrases(line) ==
  SelectSeq(line, LAMBDA ph : \E i \in 1..Len(RuleOrder) : RuleOrder[i] = ph.pat)

\* the first phrase of the line that the first matching rule matches
FirstRulePhrase(line) ==
  LET matched == RulePhrases(line)
      i == CHOOSE k \in 1..Len(matched) :
             /\ \A j \in 1..Len(matched) : RuleRank(matched[k].pat) <= RuleRank(matched[j].pat)
             /\ \A j \in 1..(k - 1) : matched[j].pat # matched[k].pat
  IN matched[i]

\* the descriptors the table gives for the phrase of a rule
RuleDescriptors(ph) ==
  CASE ph.pat \in {"ClassDoesNotExist", "InvalidType", "DependentClassInvalid",
                   "TypeNotVisible"} -> {Dependency("ApexClass", ph.arg)}
    [] ph.pat = "SObjectType" -> {Dependency("CustomObject", ph.arg)}
    [] ph.pat = "NoSuchColumn" -> {Dependency("CustomObject", ph.arg2)}
    [] ph.pat = "VariableDoesNotExist" ->
         {Dependency("CustomField", ph.arg), Dependency("ApexClass", ph.arg)}

(***************************************************************************)
(* C25. Extraction priority: each line of the output contributes at most   *)
(* one descriptor, and it is the descriptor of the first rule, in the      *)
(* order of the table, that matches the line; a line matching a rule of    *)
(* higher priority never yields the descriptor of a rule of lower          *)
(* priority, and a bare 'digits:digits' line yields nothing.               *)
(***************************************************************************)
C25_FirstMatchingRuleWins ==
  \A c \in 1..Len(parsed) :
    LET output == parsed[c].output
        returned == parsed[c].dependencies
    IN /\ Len(returned) <= Len(output)
       /\ Len(output) = 1 =>
            /\ returned # <<>> =>
                 /\ RulePhrases(output[1]) # <<>>
                 /\ returned[1] \in RuleDescriptors(FirstRulePhrase(output[1]))
            /\ output[1] = LineColOnly => returned = <<>>

\* "Variable does not exist: Nope ... Class 'Foo' does not exist" on one
\* line: the class rule gives the descriptor
C25_Witness ==
  /\ parsed # <<>>
  /\ parsed[1].output = << <<Phrase("VariableDoesNotExist", <<"Nope">>, <<>>),
                             Phrase("ClassDoesNotExist", <<"Foo">>, <<>>)>> >>
  /\ parsed[1].dependencies = <<Dependency("ApexClass", <<"Foo">>)>>

(***************************************************************************)
(* C26. A line 'Type is not visible: Name' that no rule of higher priority *)
(* matches makes parseMissingDependencies return {ApexClass, Name}.        *)
(***************************************************************************)
C26_TypeNotVisibleYieldsClass ==
  \A c \in 1..Len(parsed) :
    LET output == parsed[c].output
    IN ( /\ Len(output) = 1
         /\ RulePhrases(output[1]) # <<>>
         /\ FirstRulePhrase(output[1]).pat = "TypeNotVisible" )
       => parsed[c].dependencies
            = <<Dependency("ApexClass", FirstRulePhrase(output[1]).arg)>>

\* the name is 'Object.Field', Object an object the Locator finds for Field
ResolvedFieldName(name) ==
  \E k \in 1..Len(name) :
    /\ name[k] = "."
    /\ SubSeq(name, 1, k - 1) \in findObjectForField(SubSeq(name, k + 1, Len(name)))

\* every CustomField of the list carries a resolved name
FieldsResolved(list) ==
  \A i \in 1..Len(list) : list[i].type = "CustomField" => ResolvedFieldName(list[i].name)

(***************************************************************************)
(* C27. A line 'Variable does not exist: Name' yields {CustomField, Name}  *)
(* when Name ends with '__c' and {ApexClass, Name} otherwise, and nothing  *)
(* when Name is numeric or of length <= 1; a field is merged into the      *)
(* deployment set as {CustomField, 'O.Name'}, O the object the Locator     *)
(* finds for it, so no CustomField given to the Command Runner has a bare  *)
(* name.                                                                   *)
(***************************************************************************)
C27_FieldsAreQualified ==
  /\ \A c \in 1..Len(parsed) :
       LET output == parsed[c].output
           ph == FirstRulePhrase(output[1])
       IN ( /\ Len(output) = 1
            /\ RulePhrases(output[1]) # <<>>
            /\ ph.pat = "VariableDoesNotExist" )
          => parsed[c].dependencies =
               IF IsDigits(ph.arg) \/ StrLength(ph.arg) <= 1 THEN <<>>
               ELSE IF EndsWith(ph.arg, <<"__c">>)
                    THEN <<Dependency("CustomField", ph.arg)>>
                    ELSE <<Dependency("ApexClass", ph.arg)>>
  /\ \A r \in Requests :
       /\ FieldsResolved(frame[r].allComponentsToDeploy)
       /\ FieldsResolved(frame[r].updatedComponentsToDeploy)
       /\ \A i \in 1..Len(commandRunnerLog[r]) :
            FieldsResolved(commandRunnerLog[r][i].components)

\* after "Variable does not exist: Bar__c" the Command Runner is called
\* with the field Account.Bar__c next to the selected component
C27_Witness ==
  \E r \in Requests :
    /\ Len(commandRunnerLog[r]) = 2
    /\ frame[r].initialResult # <<>>
    /\ frame[r].initialResult[1].output = <<VariableBarMissing>>
    /\ \E j \in 1..Len(commandRunnerLog[r][2].components) :
         commandRunnerLog[r][2].components[j]
           = Dependency("CustomField", <<"Account", ".", "Bar", "__c">>)

\* an equal-identity descriptor is in D: the same type and the same name,
\* or, for a field, a name 'Object.' followed by the name of the dependency
Satisfied(D, dep) ==
  \E i \in 1..Len(D) :
    /\ D[i].type = dep.type
    /\ \/ D[i].name = dep.name
       \/ /\ dep.type = "CustomField"
          /\ Len(D[i].name) > Len(dep.name) + 1
          /\ SubSeq(D[i].name, Len(D[i].name) - Len(dep.name), Len(D[i].name))
               = <<".">> \o dep.name

\* the dependency the Locator is being asked for is not satisfied by the
\* list, and the new dependencies are the extracted ones without the
\* satisfied ones
OnlyUnsatisfiedAreResolved ==
  \A r \in Requests :
    LET f == frame[r]
    IN /\ f.pc = "resolveDependencies" =>
            ~Satisfied(f.allComponentsToDeploy, f.dependencies[f.next])
       /\ f.pc = "resolveNewDependencies" =>
            /\ ~Satisfied(f.allComponentsToDeploy, f.dependencies[f.next])
            /\ f.dependencies[f.next].type = "CustomField" =>
                 ~Satisfied(f.updatedComponentsToDeploy, f.dependencies[f.next])
            /\ f.dependencies =
                 SelectSeq(parseMissingDependencies(f.combinedResult[1].output),
                           LAMBDA dep : /\ ~IsSingleDigit(dep)
                                        /\ ~Satisfied(f.allComponentsToDeploy, dep))

\* the dependencies the first loop passes over without asking the Locator
\* are satisfied by the list, and an answer of the Locator adds at most one
\* descriptor
OnlySatisfiedAreSkipped ==
  \A r \in Requests :
    LET f == frame[r]
        g == frame'[r]
    IN ( /\ f.pc = "resolveDependencies"
         /\ g.pc \in {"resolveDependencies", "combinedDeployment"}
         /\ g.recursionDepth = f.recursionDepth
         /\ g.next > f.next )
       => /\ g.dependencies = f.dependencies
          /\ Len(g.allComponentsToDeploy) <= Len(f.allComponentsToDeploy) + 1
          /\ \A k \in (f.next + 1)..(g.next - 1) :
               k <= Len(f.dependencies) => Satisfied(g.allComponentsToDeploy, f.dependencies[k])

(***************************************************************************)
(* C28. Already-satisfied filter: an extracted dependency whose identity   *)
(* equals that of a descriptor already in the list is not given to the     *)
(* Locator and adds no descriptor; a field named F is satisfied by any     *)
(* 'Object.F' in the list, any other dependency only by the same type and  *)
(* name, and a dependency that is not satisfied is not passed over.        *)
(***************************************************************************)
C28_AlreadySatisfiedFilter ==
  []OnlyUnsatisfiedAreResolved /\ [][OnlySatisfiedAreSkipped]_vars

\* the combined attempt fails with "Variable does not exist: Bar__c" while
\* Account.Bar__c is in the list, and with that the request ends: the field
\* is not resolved again
C28_Witness ==
  \E r \in Requests :
    /\ frame[r].pc = "done"
    /\ frame[r].combinedResult # <<>>
    /\ frame[r].combinedResult[1].output = <<VariableBarMissing>>
    /\ \E i \in 1..Len(frame[r].allComponentsToDeploy) :
         frame[r].allComponentsToDeploy[i]
           = Dependency("CustomField", <<"Account", ".", "Bar", "__c">>)
    /\ frame[r].updatedComponentsToDeploy = <<>>

(***************************************************************************)
(* C29. Locate/describe round trip: for the dependency d the Locator is    *)
(* asked to find, every path p that findComponentFile(d) can return is     *)
(* described by pathToComponent(p) as a component of the kind and the name *)
(* of d.                                                                   *)
(***************************************************************************)
C29_LocateDescribeRoundTrip ==
  \A r \in Requests :
    LET f == frame[r]
    IN ( /\ f.pc \in {"resolveDependencies", "resolveNewDependencies"}
         /\ f.dependencies[f.next].type # "CustomField" )
       => \A filePath \in findComponentFile(f.dependencies[f.next]) :
            /\ pathToComponent(filePath) # <<>>
            /\ ComponentKey(pathToComponent(filePath)[1])
                 = ComponentKey(f.dependencies[f.next])

(***************************************************************************)
(* C30. Recording precedes deploying: when the Command Runner is called    *)
(* with a list, and at any time after, the signature of the list is in     *)
(* attemptedDeployments and attemptedDeploymentDetails holds a list of     *)
(* the same signature for it.                                              *)
(***************************************************************************)
C30_RecordedBeforeDeployed ==
  \A r \in Requests :
    \A i \in 1..Len(commandRunnerLog[r]) :
      LET sig == getComponentSignature(commandRunnerLog[r][i].components)
      IN /\ sig \in attemptedDeployments
         /\ sig \in DOMAIN attemptedDeploymentDetails
         /\ getComponentSignature(attemptedDeploymentDetails[sig]) = sig

\* the Command Runner has just been called with a combined list larger
\* than the list of the initial attempt, and both signatures are recorded
C30_Witness ==
  \E r \in Requests :
    /\ frame[r].pc = "combinedDeployment"
    /\ frame[r].invoked
    /\ Len(commandRunnerLog[r]) = 2
    /\ Len(commandRunnerLog[r][2].components) > Len(commandRunnerLog[r][1].components)
    /\ getComponentSignature(commandRunnerLog[r][2].components) \in attemptedDeployments
    /\ getComponentSignature(commandRunnerLog[r][1].components) \in attemptedDeployments

(***************************************************************************)
(* C38. The keys of attemptedDeploymentDetails are the signatures of       *)
(* attemptedDeployments in every reachable state, so an activation that    *)
(* has ended on a detected loop finds the list attempted before under the  *)
(* signature of its own list.                                              *)
(***************************************************************************)
C38_DetailsForEverySignature ==
  /\ DOMAIN attemptedDeploymentDetails = attemptedDeployments
  /\ \A r \in Requests :
       frame[r].exit = 93 =>
         getComponentSignature(frame[r].components) \in DOMAIN attemptedDeploymentDetails

\* a loop has been detected at entry while two signatures are recorded
C38_Witness ==
  /\ \E r \in Requests : frame[r].exit = 93
  /\ \E s1, s2 \in attemptedDeployments : s1 # s2
  /\ \E s1, s2 \in DOMAIN attemptedDeploymentDetails : s1 # s2

\* the attempt numbers the Command Runner has been called with
AttemptNumbers ==
  UNION {{commandRunnerLog[r][i].attemptNumber : i \in 1..Len(commandRunnerLog[r])} :
           r \in Requests}

\* no two calls of the Command Runner carry the same attempt number, and
\* within a command the numbers increase
AttemptNumbersUnique ==
  /\ \A r, q \in Requests :
       \A i \in 1..Len(commandRunnerLog[r]), j \in 1..Len(commandRunnerLog[q]) :
         (r # q \/ i # j)
           => commandRunnerLog[r][i].attemptNumber # commandRunnerLog[q][j].attemptNumber
  /\ \A r \in Requests :
       \A i, j \in 1..Len(commandRunnerLog[r]) :
         i < j => commandRunnerLog[r][i].attemptNumber < commandRunnerLog[r][j].attemptNumber

\* a call of the Command Runner carries a number above all numbers before
NewAttemptNumberIsGreatest ==
  \A r \in Requests :
    Len(commandRunnerLog'[r]) > Len(commandRunnerLog[r])
      => \A n \in AttemptNumbers :
           commandRunnerLog'[r][Len(commandRunnerLog'[r])].attemptNumber > n

(***************************************************************************)
(* C36. The attempt numbers passed to the Command Runner are unique and    *)
(* strictly increasing over the lifetime of the Orchestrator, also when    *)
(* two commands interleave at their awaits.                                *)
(***************************************************************************)
C36_AttemptNumbersIncrease ==
  []AttemptNumbersUnique /\ [][NewAttemptNumberIsGreatest]_vars

\* two commands are under way at once and each has called the Command
\* Runner, the second one between two calls of the first
C36_Witness ==
  /\ Len(commandRunnerLog[1]) = 2
  /\ Len(commandRunnerLog[2]) = 1
  /\ frame[1].pc # "done"
  /\ frame[2].pc # "done"
  /\ commandRunnerLog[1][1].attemptNumber < commandRunnerLog[2][1].attemptNumber
  /\ commandRunnerLog[2][1].attemptNumber < commandRunnerLog[1][2].attemptNumber

\* the signatures of the lists the Command Runner has been called with
InvokedSignatures ==
  UNION {{getComponentSignature(commandRunnerLog[r][i].components) :
            i \in 1..Len(commandRunnerLog[r])} : r \in Requests}

(***************************************************************************)
(* C32. A signature is in attemptedDeployments only if the Command Runner  *)
(* was called with a list of that signature: once every command has ended, *)
(* also one that ended before deploying, the recorded signatures are       *)
(* signatures of lists that were sent.                                     *)
(***************************************************************************)
C32_OnlyInvokedAreRecorded ==
  NoRequestInProgress => attemptedDeployments \subseteq InvokedSignatures

(***************************************************************************)
(* C33. A command that ends because the user is not authenticated and      *)
(* declines, or because authentication fails, has made no call of the      *)
(* Command Runner.                                                         *)
(***************************************************************************)
C33_NotAuthenticatedDeploysNothing ==
  \A r \in Requests :
    frame[r].outcome = "NotAuthenticated" => commandRunnerLog[r] = <<>>

\* a component of the list that needs a file has none
LacksFile(list) ==
  \E i \in 1..Len(list) : list[i].type # "CustomField" /\ list[i].filePath = NoPath

\* deployComponentList has returned by itself exactly when a component is
\* left without a file, and then the Command Runner was not called
NotFoundIsNotDeployed ==
  \A r \in Requests :
    LET f == frame[r]
    IN /\ f.pc = "initialDeployment" =>
            /\ f.invoked <=> ~LacksFile(f.components)
            /\ ~f.invoked => commandRunnerLog[r] = <<>>
       /\ f.pc = "combinedDeployment" => (f.invoked <=> ~LacksFile(f.allComponentsToDeploy))

\* the failure deployComponentList returns by itself ends the request as a
\* generic failure, and no further call of the Command Runner is made
NotFoundEndsAsFailure ==
  \A r \in Requests :
    ( /\ frame[r].pc \in {"initialDeployment", "combinedDeployment"}
      /\ ~frame[r].invoked
      /\ frame'[r] # frame[r] )
    => /\ frame'[r].pc = "done"
       /\ frame'[r].outcome = "Failed"
       /\ commandRunnerLog'[r] = commandRunnerLog[r]
       /\ deploymentAttemptCounter' = deploymentAttemptCounter

(***************************************************************************)
(* C34. If a component of the list other than a CustomField has no file    *)
(* path and the Locator finds no file for it, deployComponentList returns  *)
(* a failure without calling the Command Runner, and the request ends as a *)
(* generic failure with no retry.                                          *)
(***************************************************************************)
C34_FileNotFoundFailsWithoutDeploying ==
  []NotFoundIsNotDeployed /\ [][NotFoundEndsAsFailure]_vars

\* deployComponents was called with Foo, for which a file is found, and
\* Nope, for which none is: the request has ended as a failure without a
\* call of the Command Runner
C34_Witness ==
  \E r \in Requests :
    /\ frame[r].pc = "done"
    /\ frame[r].outcome = "Failed"
    /\ Len(frame[r].components) = 2
    /\ frame[r].components[1].filePath # NoPath
    /\ frame[r].components[2] = Dependency("ApexClass", <<"Nope">>)
    /\ commandRunnerLog[r] = <<>>
    /\ deploymentAttemptCounter = 1

(***************************************************************************)
(* C35. One command makes at most 12 calls of the Command Runner: at most  *)
(* two on each of the recursion levels 0 to 5, whatever the Command Runner *)
(* and the Locator return.                                                 *)
(***************************************************************************)
C35_AtMostTwelveInvocations ==
  \A r \in Requests :
    /\ Len(commandRunnerLog[r]) <= 2 * (MAX_DEPTH + 1)
    /\ \A depth \in 0..(MAX_DEPTH + 1) :
         Cardinality({i \in 1..Len(commandRunnerLog[r]) :
                        commandRunnerLog[r][i].recursionDepth = depth})
           <= (IF depth <= MAX_DEPTH THEN 2 ELSE 0)

\* a command has made twelve calls, the last two at depth 5
C35_Witness ==
  \E r \in Requests :
    /\ Len(commandRunnerLog[r]) = 12
    /\ commandRunnerLog[r][11].recursionDepth = 5
    /\ commandRunnerLog[r][12].recursionDepth = 5

\* no call of CLIExecutor.deployComponents is under way
NoDeploymentUnderWay ==
  \A h \in 1..MaxOverlap : forceIgnore.handlers[h].pc \in {"idle", "returned", "thrown"}

RetryDeployments(components) ==
  Cardinality({i \in 1..Len(retry.deployed) : retry.deployed[i].components = components})

(***************************************************************************)
(* C31. The retry limit of the queue path: retryQueuedDeployments deploys  *)
(* a queued component list at most maxRetries (3) times.                   *)
(***************************************************************************)
C31_DeployedAtMostMaxRetriesTimes ==
  \A i \in 1..Len(retry.deployed) :
    RetryDeployments(retry.deployed[i].components) <= maxRetries

====
